---------------------------- MODULE Spec2Model ----------------------------
(***************************************************************************)
(* TeslaFi exporter (src/exporter.py): the collector of one vehicle's      *)
(* telemetry.  TeslaFiCollector.collect() fetches the current snapshot,    *)
(* completes it with the cached last good snapshot (last_good_data) when   *)
(* the car is asleep, and maps the fields to a fixed list of metrics.      *)
(*                                                                         *)
(* Encoding of Python values.  Every JSON scalar of a snapshot is a        *)
(* string; Python's None is the reserved string PyNone, which no upstream  *)
(* document uses as a value.  The integer default -1 handed to getSetData  *)
(* is written "-1": it only ever reaches int() or float(), which give -1   *)
(* for both.  A number produced by float(), int() or a multiplication by   *)
(* the integer 60*60 is exactly representable and kept as the rational     *)
(* n / scale, the record [n |-> n, scale |-> scale].  A product by one of  *)
(* the float literals 1609.344 and 1.609344 is a rounded double; it is     *)
(* kept as the decimal numeral Python prints for it (repr), the record     *)
(* [neg, whole, frac] for sign, integer part and digits after the point.   *)
(* Evaluating an expression gives [ok |-> TRUE, v |-> value] or, when      *)
(* Python raises, [ok |-> FALSE, error |-> exception name].                *)
(***************************************************************************)
EXTENDS Integers, Sequences, FiniteSets, TLC

PyNone == "<None>"

Ok(v) == [ok |-> TRUE, v |-> v]

Raise(e) == [ok |-> FALSE, error |-> e]

(***************************************************************************)
(* float() and int() on the values a snapshot field can hold.  The         *)
(* decimal strings the model feeds are listed with their exact value.      *)
(***************************************************************************)
Num(n, scale) == [n |-> n, scale |-> scale]

DecimalStrings ==
    ( "-1" :> Num(-1, 1) @@ "0" :> Num(0, 1) @@ "1" :> Num(1, 1) @@ "2" :> Num(2, 1)
   @@ "3" :> Num(3, 1) @@ "15" :> Num(15, 1) @@ "20" :> Num(20, 1) @@ "60" :> Num(60, 1)
   @@ "70" :> Num(70, 1) @@ "80" :> Num(80, 1) @@ "100" :> Num(100, 1)
   @@ "20.5" :> Num(205, 10) )

PyFloat(v) ==
    IF v = PyNone THEN Raise("TypeError")
    ELSE IF v \in DOMAIN DecimalStrings THEN Ok(DecimalStrings[v])
    ELSE Raise("ValueError")

PyInt(v) ==
    IF v = PyNone THEN Raise("TypeError")
    ELSE IF v \in DOMAIN DecimalStrings /\ DecimalStrings[v].scale = 1
         THEN Ok(DecimalStrings[v])
    ELSE Raise("ValueError")

(***************************************************************************)
(* The unit multipliers of collect(): miles to meters (1609.344), mph to   *)
(* km/h (1.609344), hours to seconds (60*60).                              *)
(***************************************************************************)
MilesToMetersThousandths == 1609344

MphToKmhMillionths == 1609344

HoursToSeconds == 3600

(***************************************************************************)
(* Decimal numerals.  ExactDecimal(n, scale) is the numeral of the         *)
(* rational n / scale for scale a power of ten: the digits after the       *)
(* point without trailing zeros.                                           *)
(***************************************************************************)
Decimal(neg, whole, frac) == [neg |-> neg, whole |-> whole, frac |-> frac]

RECURSIVE FractionDigits(_, _)
FractionDigits(r, scale) ==
    IF r = 0 THEN << >>
    ELSE << (r * 10) \div scale >> \o FractionDigits((r * 10) % scale, scale)

ExactDecimal(n, scale) ==
    LET a == IF n < 0 THEN -n ELSE n
    IN  Decimal(n < 0, a \div scale, FractionDigits(a % scale, scale))

(***************************************************************************)
(* float * float in IEEE-754 double precision, for the operands the model  *)
(* feeds.  The literal is not a double itself and the product is rounded,  *)
(* so the result is the double nearest to x times the double nearest to    *)
(* the literal.  Its numeral is the one of the exact product for every     *)
(* operand of DecimalStrings but one: 70.0 * 1.609344 is                   *)
(* 112.65408000000001.                                                     *)
(***************************************************************************)
RoundedProducts ==
    << Num(70, 1), "1.609344" >> :>
        Decimal(FALSE, 112, <<6, 5, 4, 0, 8, 0, 0, 0, 0, 0, 0, 0, 0, 1>>)

FloatProduct(x, mul, n, scale) ==
    IF << x, mul >> \in DOMAIN RoundedProducts
    THEN RoundedProducts[<< x, mul >>]
    ELSE ExactDecimal(x.n * n, x.scale * scale)

(***************************************************************************)
(* A variant that converts miles with the km/h factor.                     *)
(***************************************************************************)
TimesKilo(x, mul) ==
    CASE mul = "1"        -> x
      [] mul = "1609.344" -> FloatProduct(x, "1.609344", MphToKmhMillionths, 1000000)
      [] mul = "1.609344" -> FloatProduct(x, "1.609344", MphToKmhMillionths, 1000000)
      [] mul = "3600"     -> Num(x.n * HoursToSeconds, x.scale)

(***************************************************************************)
(* value * 1609.344, value * 1.609344, value * 60 * 60, or the value       *)
(* itself.                                                                 *)
(***************************************************************************)
Times(x, mul) ==
    CASE mul = "1"        -> x
      [] mul = "1609.344" -> FloatProduct(x, "1609.344", MilesToMetersThousandths, 1000)
      [] mul = "1.609344" -> FloatProduct(x, "1.609344", MphToKmhMillionths, 1000000)
      [] mul = "3600"     -> Num(x.n * HoursToSeconds, x.scale)

(***************************************************************************)
(* getSetData(data, data_old, key, default): the current value unless it   *)
(* is None or '', else the old value unless it is None or '', else the     *)
(* default.  data and data_old are dicts (functions on their keys); a      *)
(* subscript with a missing key raises KeyError.                           *)
(***************************************************************************)
(***************************************************************************)
(* A variant that reads the dicts with .get(key): a missing key counts as  *)
(* None.                                                                   *)
(***************************************************************************)
getSetDataMissingKeyIsNone(data, data_old, key, default) ==
    LET new == IF key \in DOMAIN data THEN data[key] ELSE PyNone
        old == IF key \in DOMAIN data_old THEN data_old[key] ELSE PyNone
    IN  IF new = PyNone \/ new = ""
        THEN IF old = PyNone \/ old = "" THEN Ok(default) ELSE Ok(old)
        ELSE Ok(new)

(***************************************************************************)
(* A variant that prefers the fallback snapshot.                           *)
(***************************************************************************)
getSetDataFallbackFirst(data, data_old, key, default) ==
    IF key \notin DOMAIN data THEN Raise("KeyError")
    ELSE IF key \notin DOMAIN data_old THEN Raise("KeyError")
    ELSE IF data_old[key] = PyNone \/ data_old[key] = ""
    THEN IF data[key] = PyNone \/ data[key] = "" THEN Ok(default) ELSE Ok(data[key])
    ELSE Ok(data_old[key])

getSetData(data, data_old, key, default) ==
    IF key \notin DOMAIN data THEN Raise("KeyError")
    ELSE IF data[key] = PyNone \/ data[key] = ""
    THEN IF key \notin DOMAIN data_old THEN Raise("KeyError")
         ELSE IF data_old[key] = PyNone \/ data_old[key] = ""
              THEN Ok(default)
              ELSE Ok(data_old[key])
    ELSE Ok(data[key])

(***************************************************************************)
(* The metrics of collect(), in the order they are appended to the list    *)
(* `metrics`.  An info metric reads each attribute with default ''.  A     *)
(* counter or gauge has one observation (add_metric) per entry of obs:     *)
(* its sub-label ('' when it has only the two vehicle labels), the field,  *)
(* the default handed to getSetData and the conversion of the value:       *)
(*   raw          the value as it is                                       *)
(*   eqTrue       1 if value == "True" else 0                              *)
(*   float, int   float(value), int(value)                                 *)
(*   floatOrZero  0.0 if value is None else float(value)                   *)
(*   intOrMinus1  -1 if value is None else int(value)                      *)
(* followed by the multiplication by mul.  A state set reads its field,    *)
(* rewrites it by its rule (keep: not at all; ifNone, ifEmpty,             *)
(* ifNoneEmptyInvalid: to `becomes` when the value is None / is '' / is    *)
(* None, '' or '<invalid>') and has one flag <<name, v>> per entry of the  *)
(* dict literal, true when the rewritten value equals v.                   *)
(***************************************************************************)
Catalog ==
    << [name |-> "teslafi", kind |-> "info",
       attrs |-> <<"vin", "display_name", "vehicle_id", "option_codes", "exterior_color",
                   "roof_color", "measure", "eu_vehicle", "rhd", "motorized_charge_port",
                   "spoiler_type", "third_row_seats", "car_type", "rear_seat_heaters">>],
       [name |-> "teslafi_status", kind |-> "info",
       attrs |-> <<"vin", "display_name", "vehicle_name", "car_version", "newVersion", "wheel_type",
                   "api_version">>],
       [name |-> "teslafi_data_id", kind |-> "counter",
       obs |-> <<[sub |-> "", field |-> "data_id", default |-> PyNone, conv |-> "raw",
                   mul |-> "1"]>>],
       [name |-> "teslafi_polling", kind |-> "gauge",
       obs |-> <<[sub |-> "", field |-> "polling", default |-> PyNone, conv |-> "eqTrue",
                   mul |-> "1"]>>],
       [name |-> "teslafi_odometer_meter", kind |-> "counter",
       obs |-> <<[sub |-> "", field |-> "odometer", default |-> PyNone, conv |-> "float",
                   mul |-> "1609.344"]>>],
       [name |-> "teslafi_outside_temperature", kind |-> "gauge",
       obs |-> <<[sub |-> "", field |-> "outside_temp", default |-> PyNone, conv |-> "float",
                   mul |-> "1"]>>],
       [name |-> "teslafi_inside_temperature", kind |-> "gauge",
       obs |-> <<[sub |-> "", field |-> "inside_temp", default |-> PyNone, conv |-> "float",
                   mul |-> "1"]>>],
       [name |-> "teslafi_driver_set_temperature", kind |-> "gauge",
       obs |-> <<[sub |-> "", field |-> "driver_temp_setting", default |-> PyNone, conv |-> "float",
                   mul |-> "1"]>>],
       [name |-> "teslafi_passenger_set_temperature", kind |-> "gauge",
       obs |-> <<[sub |-> "", field |-> "passenger_temp_setting", default |-> PyNone,
                   conv |-> "float", mul |-> "1"]>>],
       [name |-> "teslafi_fan_status", kind |-> "gauge",
       obs |-> <<[sub |-> "", field |-> "fan_status", default |-> PyNone, conv |-> "int",
                   mul |-> "1"]>>],
       [name |-> "teslafi_battery_level", kind |-> "gauge",
       obs |-> <<[sub |-> "", field |-> "battery_level", default |-> PyNone, conv |-> "float",
                   mul |-> "1"]>>],
       [name |-> "teslafi_usable_battery_level", kind |-> "gauge",
       obs |-> <<[sub |-> "", field |-> "usable_battery_level", default |-> PyNone, conv |-> "float",
                   mul |-> "1"]>>],
       [name |-> "teslafi_battery_range_meter", kind |-> "gauge",
       obs |-> <<[sub |-> "", field |-> "battery_range", default |-> PyNone, conv |-> "float",
                   mul |-> "1609.344"]>>],
       [name |-> "teslafi_battery_range_ideal_meter", kind |-> "gauge",
       obs |-> <<[sub |-> "", field |-> "ideal_battery_range", default |-> PyNone, conv |-> "float",
                   mul |-> "1609.344"]>>],
       [name |-> "teslafi_battery_range_est_meter", kind |-> "gauge",
       obs |-> <<[sub |-> "", field |-> "est_battery_range", default |-> PyNone, conv |-> "float",
                   mul |-> "1609.344"]>>],
       [name |-> "teslafi_maxRange_meter", kind |-> "gauge",
       obs |-> <<[sub |-> "", field |-> "maxRange", default |-> PyNone, conv |-> "float",
                   mul |-> "1609.344"]>>],
       [name |-> "teslafi_charge_limit_soc", kind |-> "gauge",
       obs |-> <<[sub |-> "", field |-> "charge_limit_soc", default |-> PyNone, conv |-> "float",
                   mul |-> "1"]>>],
       [name |-> "teslafi_gps_as_of", kind |-> "gauge",
       obs |-> <<[sub |-> "", field |-> "gps_as_of", default |-> PyNone, conv |-> "floatOrZero",
                   mul |-> "1"]>>],
       [name |-> "teslafi_heading", kind |-> "gauge",
       obs |-> <<[sub |-> "", field |-> "heading", default |-> PyNone, conv |-> "float",
                   mul |-> "1"]>>],
       [name |-> "teslafi_longitude", kind |-> "gauge",
       obs |-> <<[sub |-> "", field |-> "longitude", default |-> PyNone, conv |-> "float",
                   mul |-> "1"]>>],
       [name |-> "teslafi_latitude", kind |-> "gauge",
       obs |-> <<[sub |-> "", field |-> "latitude", default |-> PyNone, conv |-> "float",
                   mul |-> "1"]>>],
       [name |-> "teslafi_idleTime", kind |-> "gauge",
       obs |-> <<[sub |-> "", field |-> "idleTime", default |-> PyNone, conv |-> "float",
                   mul |-> "1"]>>],
       [name |-> "teslafi_number", kind |-> "gauge",
       obs |-> <<[sub |-> "idle", field |-> "idleNumber", default |-> PyNone, conv |-> "float",
                   mul |-> "1"],
                 [sub |-> "sleep", field |-> "sleepNumber", default |-> PyNone, conv |-> "float",
                             mul |-> "1"],
                 [sub |-> "drive", field |-> "driveNumber", default |-> PyNone, conv |-> "float",
                             mul |-> "1"],
                 [sub |-> "charge", field |-> "chargeNumber", default |-> PyNone, conv |-> "float",
                             mul |-> "1"]>>],
       [name |-> "teslafi_sentry_mode", kind |-> "gauge",
       obs |-> <<[sub |-> "", field |-> "sentry_mode", default |-> PyNone, conv |-> "int",
                   mul |-> "1"]>>],
       [name |-> "teslafi_locked", kind |-> "gauge",
       obs |-> <<[sub |-> "", field |-> "locked", default |-> PyNone, conv |-> "int",
                   mul |-> "1"]>>],
       [name |-> "teslafi_is_user_present", kind |-> "gauge",
       obs |-> <<[sub |-> "", field |-> "is_user_present", default |-> PyNone, conv |-> "int",
                   mul |-> "1"]>>],
       [name |-> "teslafi_in_service", kind |-> "gauge",
       obs |-> <<[sub |-> "", field |-> "in_service", default |-> PyNone, conv |-> "int",
                   mul |-> "1"]>>],
       [name |-> "teslafi_center_display_state", kind |-> "gauge",
       obs |-> <<[sub |-> "", field |-> "center_display_state", default |-> PyNone,
                   conv |-> "intOrMinus1", mul |-> "1"]>>],
       [name |-> "teslafi_door_open", kind |-> "gauge",
       obs |-> <<[sub |-> "front driver", field |-> "df", default |-> PyNone, conv |-> "int",
                   mul |-> "1"],
                 [sub |-> "rear driver", field |-> "dr", default |-> PyNone, conv |-> "int",
                             mul |-> "1"],
                 [sub |-> "front passenger", field |-> "pf", default |-> PyNone, conv |-> "int",
                             mul |-> "1"],
                 [sub |-> "rear passenger", field |-> "pr", default |-> PyNone, conv |-> "int",
                             mul |-> "1"],
                 [sub |-> "front trunk", field |-> "ft", default |-> PyNone, conv |-> "int",
                             mul |-> "1"],
                 [sub |-> "rear trunk", field |-> "rt", default |-> PyNone, conv |-> "int",
                             mul |-> "1"]>>],
       [name |-> "teslafi_window_open", kind |-> "gauge",
       obs |-> <<[sub |-> "front driver", field |-> "fd_window", default |-> PyNone, conv |-> "int",
                   mul |-> "1"],
                 [sub |-> "rear driver", field |-> "rd_window", default |-> PyNone, conv |-> "int",
                             mul |-> "1"],
                 [sub |-> "front passenger", field |-> "fp_window", default |-> PyNone,
                             conv |-> "int", mul |-> "1"],
                 [sub |-> "rear passenger", field |-> "rp_window", default |-> PyNone,
                             conv |-> "int", mul |-> "1"]>>],
       [name |-> "teslafi_seat_heater", kind |-> "gauge",
       obs |-> <<[sub |-> "front driver", field |-> "seat_heater_left", default |-> PyNone,
                   conv |-> "int", mul |-> "1"],
                 [sub |-> "rear driver", field |-> "seat_heater_rear_left", default |-> PyNone,
                             conv |-> "int", mul |-> "1"],
                 [sub |-> "front passenger", field |-> "seat_heater_right", default |-> PyNone,
                             conv |-> "int", mul |-> "1"],
                 [sub |-> "rear passenger", field |-> "seat_heater_rear_right", default |-> PyNone,
                             conv |-> "int", mul |-> "1"],
                 [sub |-> "rear center", field |-> "seat_heater_rear_center", default |-> PyNone,
                             conv |-> "int", mul |-> "1"]>>],
       [name |-> "teslafi_homelink_nearby", kind |-> "gauge",
       obs |-> <<[sub |-> "", field |-> "homelink_nearby", default |-> PyNone, conv |-> "int",
                   mul |-> "1"]>>],
       [name |-> "teslafi_battery_heater_on", kind |-> "gauge",
       obs |-> <<[sub |-> "", field |-> "battery_heater_on", default |-> PyNone, conv |-> "int",
                   mul |-> "1"]>>],
       [name |-> "teslafi_is_front_defroster_on", kind |-> "gauge",
       obs |-> <<[sub |-> "", field |-> "is_front_defroster_on", default |-> PyNone, conv |-> "int",
                   mul |-> "1"]>>],
       [name |-> "teslafi_is_rear_defroster_on", kind |-> "gauge",
       obs |-> <<[sub |-> "", field |-> "is_rear_defroster_on", default |-> PyNone, conv |-> "int",
                   mul |-> "1"]>>],
       [name |-> "teslafi_defrost_mode", kind |-> "gauge",
       obs |-> <<[sub |-> "", field |-> "defrost_mode", default |-> PyNone, conv |-> "int",
                   mul |-> "1"]>>],
       [name |-> "teslafi_is_preconditioning", kind |-> "gauge",
       obs |-> <<[sub |-> "", field |-> "is_preconditioning", default |-> PyNone, conv |-> "int",
                   mul |-> "1"]>>],
       [name |-> "teslafi_is_auto_conditioning_on", kind |-> "gauge",
       obs |-> <<[sub |-> "", field |-> "is_auto_conditioning_on", default |-> PyNone,
                   conv |-> "int", mul |-> "1"]>>],
       [name |-> "teslafi_is_climate_on", kind |-> "gauge",
       obs |-> <<[sub |-> "", field |-> "is_climate_on", default |-> PyNone, conv |-> "int",
                   mul |-> "1"]>>],
       [name |-> "teslafi_left_temp_direction", kind |-> "gauge",
       obs |-> <<[sub |-> "", field |-> "left_temp_direction", default |-> PyNone,
                   conv |-> "intOrMinus1", mul |-> "1"]>>],
       [name |-> "teslafi_right_temp_direction", kind |-> "gauge",
       obs |-> <<[sub |-> "", field |-> "right_temp_direction", default |-> PyNone,
                   conv |-> "intOrMinus1", mul |-> "1"]>>],
       [name |-> "teslafi_charge_port_cold_weather_mode", kind |-> "gauge",
       obs |-> <<[sub |-> "", field |-> "charge_port_cold_weather_mode", default |-> "-1",
                   conv |-> "int", mul |-> "1"]>>],
       [name |-> "teslafi_charge_port_door_open", kind |-> "gauge",
       obs |-> <<[sub |-> "", field |-> "charge_port_door_open", default |-> "-1", conv |-> "int",
                   mul |-> "1"]>>],
       [name |-> "teslafi_time_to_full_charge_seconds", kind |-> "gauge",
       obs |-> <<[sub |-> "", field |-> "time_to_full_charge", default |-> PyNone, conv |-> "float",
                   mul |-> "3600"]>>],
       [name |-> "teslafi_charge_current_request_ampere", kind |-> "gauge",
       obs |-> <<[sub |-> "", field |-> "charge_current_request", default |-> PyNone,
                   conv |-> "float", mul |-> "1"]>>],
       [name |-> "teslafi_charge_enable_request", kind |-> "gauge",
       obs |-> <<[sub |-> "", field |-> "charge_enable_request", default |-> PyNone,
                   conv |-> "float", mul |-> "1"]>>],
       [name |-> "teslafi_charger_power_kw", kind |-> "gauge",
       obs |-> <<[sub |-> "", field |-> "charger_power", default |-> "-1", conv |-> "float",
                   mul |-> "1"]>>],
       [name |-> "teslafi_charger_pilot_current_ampere", kind |-> "gauge",
       obs |-> <<[sub |-> "", field |-> "charger_pilot_current", default |-> "-1", conv |-> "float",
                   mul |-> "1"]>>],
       [name |-> "teslafi_charger_actual_current_ampere", kind |-> "gauge",
       obs |-> <<[sub |-> "", field |-> "charger_actual_current", default |-> "-1", conv |-> "float",
                   mul |-> "1"]>>],
       [name |-> "teslafi_charge_current_request_max_ampere", kind |-> "gauge",
       obs |-> <<[sub |-> "", field |-> "charge_current_request_max", default |-> PyNone,
                   conv |-> "float", mul |-> "1"]>>],
       [name |-> "teslafi_charge_energy_added_kwh", kind |-> "gauge",
       obs |-> <<[sub |-> "", field |-> "charge_energy_added", default |-> PyNone, conv |-> "float",
                   mul |-> "1"]>>],
       [name |-> "teslafi_charge_range_ideal_added_meter", kind |-> "gauge",
       obs |-> <<[sub |-> "", field |-> "charge_miles_added_ideal", default |-> PyNone,
                   conv |-> "float", mul |-> "1609.344"]>>],
       [name |-> "teslafi_charge_range_rated_added_meter", kind |-> "gauge",
       obs |-> <<[sub |-> "", field |-> "charge_miles_added_rated", default |-> PyNone,
                   conv |-> "float", mul |-> "1609.344"]>>],
       [name |-> "teslafi_charge_rate", kind |-> "gauge",
       obs |-> <<[sub |-> "", field |-> "charge_rate", default |-> PyNone, conv |-> "float",
                   mul |-> "1.609344"]>>],
       [name |-> "teslafi_charger_voltage", kind |-> "gauge",
       obs |-> <<[sub |-> "", field |-> "charger_voltage", default |-> "-1", conv |-> "float",
                   mul |-> "1"]>>],
       [name |-> "teslafi_fast_charger_present", kind |-> "gauge",
       obs |-> <<[sub |-> "", field |-> "fast_charger_present", default |-> "-1", conv |-> "int",
                   mul |-> "1"]>>],
       [name |-> "teslafi_trip_charging", kind |-> "gauge",
       obs |-> <<[sub |-> "", field |-> "trip_charging", default |-> "-1", conv |-> "int",
                   mul |-> "1"]>>],
       [name |-> "teslafi_speed_kmh", kind |-> "gauge",
       obs |-> <<[sub |-> "", field |-> "speed", default |-> PyNone, conv |-> "floatOrZero",
                   mul |-> "1.609344"]>>],
       [name |-> "teslafi_power_kw", kind |-> "gauge",
       obs |-> <<[sub |-> "", field |-> "power", default |-> PyNone, conv |-> "float",
                   mul |-> "1"]>>],
       [name |-> "teslafi_carState", kind |-> "stateset", field |-> "carState", default |-> PyNone,
       rule |-> "keep", becomes |-> PyNone,
       flags |-> << <<"Driving", "Driving">>, <<"Sleeping", "Sleeping">>, <<"Idling", "Idling">>,
                   <<"Charging", "Charging">>, <<"Sentry", "Sentry">> >>],
       [name |-> "teslafi_shift_state", kind |-> "stateset", field |-> "shift_state",
                   default |-> PyNone,
       rule |-> "ifNone", becomes |-> "None",
       flags |-> << <<"None", "None">>, <<"P", "P">>, <<"R", "R">>, <<"N", "N">>, <<"D", "D">> >>],
       [name |-> "teslafi_charger_phases", kind |-> "stateset", field |-> "charger_phases",
                   default |-> PyNone,
       rule |-> "ifNone", becomes |-> "None",
       flags |-> << <<"None", "None">>, <<"1", "1">>, <<"2", "2">>, <<"3", "3">> >>],
       [name |-> "teslafi_api_state", kind |-> "stateset", field |-> "state", default |-> PyNone,
       rule |-> "keep", becomes |-> PyNone,
       flags |-> << <<"online", "online">>, <<"offline", "offline">>, <<"asleep", "asleep">> >>],
       [name |-> "teslafi_fast_charger_type", kind |-> "stateset", field |-> "fast_charger_type",
                   default |-> PyNone,
       rule |-> "ifNoneEmptyInvalid", becomes |-> "None",
       flags |-> << <<"None", "None">>, <<"MCSingleWireCAN", "MCSingleWireCAN">>, <<"Combo",
                   "Combo">> >>],
       [name |-> "teslafi_charge_port_led_color", kind |-> "stateset",
                   field |-> "charge_port_led_color", default |-> "",
       rule |-> "ifEmpty", becomes |-> "None",
       flags |-> << <<"", "None">>, <<"None", "None">> >>],
       [name |-> "teslafi_charge_port_latch", kind |-> "stateset", field |-> "charge_port_latch",
                   default |-> PyNone,
       rule |-> "keep", becomes |-> PyNone,
       flags |-> << <<"invalid", "invalid">>, <<"Engaged", "Engaged">> >>],
       [name |-> "teslafi_charging_state", kind |-> "stateset", field |-> "charging_state",
                   default |-> PyNone,
       rule |-> "keep", becomes |-> PyNone,
       flags |-> << <<"Disconnected", "Disconnected">>, <<"Charging", "Charging">>, <<"Complete",
                   "Complete">> >>],
       [name |-> "teslafi_location", kind |-> "stateset", field |-> "location", default |-> PyNone,
       rule |-> "ifNoneEmptyInvalid", becomes |-> "Unknown",
       flags |-> << <<"Unknown", "Unknown">> >>],
       [name |-> "teslafi_climate_keeper_mode", kind |-> "stateset", field |-> "climate_keeper_mode",
                   default |-> PyNone,
       rule |-> "ifNoneEmptyInvalid", becomes |-> "Unknown",
       flags |-> << <<"off", "off">>, <<"on", "on">>, <<"camp", "camp">>, <<"dog", "dog">> >>],
       [name |-> "teslafi_conn_charge_cable", kind |-> "stateset", field |-> "conn_charge_cable",
                   default |-> PyNone,
       rule |-> "ifNoneEmptyInvalid", becomes |-> "None",
       flags |-> << <<"None", "None">>, <<"IEC", "IEC">> >>],
       [name |-> "teslafi_fast_charger_brand", kind |-> "stateset", field |-> "fast_charger_brand",
                   default |-> PyNone,
       rule |-> "ifNoneEmptyInvalid", becomes |-> "None",
       flags |-> << <<"None", "None">>, <<"Tesla", "Tesla">> >>],
       [name |-> "teslafi_newVersionStatus", kind |-> "stateset", field |-> "newVersionStatus",
                   default |-> PyNone,
       rule |-> "ifNoneEmptyInvalid", becomes |-> "None",
       flags |-> << <<"None", "None">>, <<"downloading_wifi_wait", "downloading_wifi_wait">>,
                   <<"downloading", "downloading">>, <<"available", "available">>, <<"scheduled",
                   "scheduled">>, <<"installing", "installing">> >>] >>

(***************************************************************************)
(* The fields collect() reads.                                             *)
(***************************************************************************)
label_keys == <<"vin", "display_name">>

Range(seq) == {seq[i] : i \in DOMAIN seq}

FieldsOf(m) ==
    CASE m.kind = "info"     -> Range(m.attrs)
      [] m.kind = "stateset" -> {m.field}
      [] OTHER               -> {o.field : o \in Range(m.obs)}

Fields == Range(label_keys) \cup UNION {FieldsOf(m) : m \in Range(Catalog)}

(***************************************************************************)
(* The first exception of a sequence of evaluations made in order, or      *)
(* Ok of the sequence of their values.                                     *)
(***************************************************************************)
InOrder(rs) ==
    LET bad == {i \in DOMAIN rs : ~rs[i].ok}
    IN  IF bad = {}
        THEN Ok([i \in DOMAIN rs |-> rs[i].v])
        ELSE rs[CHOOSE i \in bad : \A j \in bad : i <= j]

(***************************************************************************)
(* label_values: the two vehicle labels, read without a default.           *)
(***************************************************************************)
label_values(data, data_old) ==
    InOrder([i \in DOMAIN label_keys |->
                getSetData(data, data_old, label_keys[i], PyNone)])

(***************************************************************************)
(* A variant that hands a None result to int() instead of giving -1.       *)
(***************************************************************************)
ObservationValueNoSentinel(data, data_old, o) ==
    LET r == getSetData(data, data_old, o.field, o.default)
        f == PyFloat(r.v)
        n == PyInt(r.v)
    IN  IF ~r.ok THEN r
        ELSE CASE o.conv = "raw"    -> Ok(r.v)
               [] o.conv = "eqTrue" -> Ok(IF r.v = "True" THEN Num(1, 1) ELSE Num(0, 1))
               [] o.conv = "float"  -> IF f.ok THEN Ok(Times(f.v, o.mul)) ELSE f
               [] o.conv = "int"    -> n
               [] o.conv = "floatOrZero" ->
                    IF r.v = PyNone THEN Ok(Times(Num(0, 1), o.mul))
                    ELSE IF f.ok THEN Ok(Times(f.v, o.mul)) ELSE f
               [] o.conv = "intOrMinus1" -> n

(***************************************************************************)
(* The value of one observation of a counter or gauge.                     *)
(***************************************************************************)
ObservationValue(data, data_old, o) ==
    LET r == getSetData(data, data_old, o.field, o.default)
        f == PyFloat(r.v)
        n == PyInt(r.v)
    IN  IF ~r.ok THEN r
        ELSE CASE o.conv = "raw"    -> Ok(r.v)
               [] o.conv = "eqTrue" -> Ok(IF r.v = "True" THEN Num(1, 1) ELSE Num(0, 1))
               [] o.conv = "float"  -> IF f.ok THEN Ok(Times(f.v, o.mul)) ELSE f
               [] o.conv = "int"    -> n
               [] o.conv = "floatOrZero" ->
                    IF r.v = PyNone THEN Ok(Times(Num(0, 1), o.mul))
                    ELSE IF f.ok THEN Ok(Times(f.v, o.mul)) ELSE f
               [] o.conv = "intOrMinus1" ->
                    IF r.v = PyNone THEN Ok(Num(-1, 1)) ELSE n

(***************************************************************************)
(* A counter or gauge family: one sample per add_metric, labelled with     *)
(* the vehicle labels and, when it has one, the sub-label.                 *)
(***************************************************************************)
NumberMetric(data, data_old, labels, m) ==
    LET vs == InOrder([i \in DOMAIN m.obs |-> ObservationValue(data, data_old, m.obs[i])])
    IN  IF ~vs.ok THEN vs
        ELSE Ok([name |-> m.name, kind |-> m.kind,
                 samples |-> [i \in DOMAIN m.obs |->
                    [labels |-> IF m.obs[i].sub = "" THEN labels
                                ELSE Append(labels, m.obs[i].sub),
                     value |-> vs.v[i]]]])

(***************************************************************************)
(* An info family: a single sample whose value is the dict of attributes.  *)
(***************************************************************************)
InfoMetric(data, data_old, m) ==
    LET vs == InOrder([i \in DOMAIN m.attrs |-> getSetData(data, data_old, m.attrs[i], "")])
    IN  IF ~vs.ok THEN vs
        ELSE Ok([name |-> m.name, kind |-> m.kind,
                 samples |-> << [labels |-> <<>>,
                                 value |-> [a \in Range(m.attrs) |->
                                    vs.v[CHOOSE i \in DOMAIN m.attrs : m.attrs[i] = a]]] >>])

(***************************************************************************)
(* A state set family.  The value read is rewritten by the family's rule;  *)
(* the dict literal gives each fixed flag; a value that is no key of the   *)
(* dict (`d.get(value) is None`) is added as a flag set to True.           *)
(***************************************************************************)
Rewritten(m, v) ==
    CASE m.rule = "keep"    -> v
      [] m.rule = "ifNone"  -> IF v = PyNone THEN m.becomes ELSE v
      [] m.rule = "ifEmpty" -> IF v = "" THEN m.becomes ELSE v
      [] m.rule = "ifNoneEmptyInvalid" ->
            IF v = PyNone \/ v = "" \/ v = "<invalid>" THEN m.becomes ELSE v

FixedFlags(m) == {m.flags[i][1] : i \in DOMAIN m.flags}

(***************************************************************************)
(* A variant that never adds a key to the state dict.                      *)
(***************************************************************************)
StateFlagsFixedOnly(m, v) ==
    [k \in FixedFlags(m) |->
        LET i == CHOOSE j \in DOMAIN m.flags : m.flags[j][1] = k
        IN  v = m.flags[i][2]]

StateFlags(m, v) ==
    LET d == [k \in FixedFlags(m) |->
                 LET i == CHOOSE j \in DOMAIN m.flags : m.flags[j][1] = k
                 IN  v = m.flags[i][2]]
    IN  IF v \notin DOMAIN d THEN (v :> TRUE) @@ d ELSE d

(***************************************************************************)
(* StateSetMetricFamily.add_metric iterates over sorted(value.items()):    *)
(* a dict that has the key None next to string keys cannot be sorted       *)
(* (None < str raises TypeError).                                          *)
(***************************************************************************)
Unsortable(keys) == PyNone \in keys /\ keys # {PyNone}

(***************************************************************************)
(* A variant whose state dict also keeps a (false) flag for the value of   *)
(* the fallback snapshot, as a dict kept across collect() calls would.     *)
(***************************************************************************)
StateSetMetricKeepsOldFlag(data, data_old, labels, m) ==
    LET r == getSetData(data, data_old, m.field, m.default)
        old == getSetData(data_old, data_old, m.field, m.default)
        value == StateFlags(m, Rewritten(m, r.v))
                 @@ IF old.ok THEN (Rewritten(m, old.v) :> FALSE) ELSE << >>
    IN  IF ~r.ok THEN r
        ELSE IF Unsortable(DOMAIN value) THEN Raise("TypeError")
        ELSE Ok([name |-> m.name, kind |-> m.kind,
                 samples |-> << [labels |-> labels, value |-> value] >>])

StateSetMetric(data, data_old, labels, m) ==
    LET r == getSetData(data, data_old, m.field, m.default)
        value == StateFlags(m, Rewritten(m, r.v))
    IN  IF ~r.ok THEN r
        ELSE IF Unsortable(DOMAIN value) THEN Raise("TypeError")
        ELSE Ok([name |-> m.name, kind |-> m.kind,
                 samples |-> << [labels |-> labels, value |-> value] >>])

(***************************************************************************)
(* The mapping part of collect() (from `metrics = []` to `return           *)
(* metrics`): the list of metric families, or the first exception.         *)
(***************************************************************************)
MapMetric(data, data_old, labels, m) ==
    CASE m.kind = "info"     -> InfoMetric(data, data_old, m)
      [] m.kind = "stateset" -> StateSetMetric(data, data_old, labels, m)
      [] OTHER               -> NumberMetric(data, data_old, labels, m)

(***************************************************************************)
(* A variant that leaves out a family whose value cannot be built.         *)
(***************************************************************************)
MapMetricsSkipsFailed(data, data_old) ==
    LET labels == label_values(data, data_old)
        built == [i \in DOMAIN Catalog |-> MapMetric(data, data_old, labels.v, Catalog[i])]
        RECURSIVE Kept(_)
        Kept(n) == IF n = 0 THEN <<>>
                   ELSE IF built[n].ok THEN Append(Kept(n - 1), built[n].v)
                   ELSE Kept(n - 1)
    IN  IF ~labels.ok THEN labels ELSE Ok(Kept(Len(Catalog)))

MapMetrics(data, data_old) ==
    LET labels == label_values(data, data_old)
    IN  IF ~labels.ok THEN labels
        ELSE InOrder([i \in DOMAIN Catalog |-> MapMetric(data, data_old, labels.v, Catalog[i])])

(***************************************************************************)
(* The JSON documents the TeslaFi API is made to answer with.  A document  *)
(* is named by a base document and at most one changed field:              *)
(* [base, field, val] is the base with `field` set to val, or with the     *)
(* key removed when val is Absent; field NoField names the base itself.    *)
(* JsonBody gives the dict the document parses to.                         *)
(***************************************************************************)
NoField == ""

Absent == "<absent>"

AwakeBody ==
    ( "vin" :> "T1" @@ "display_name" :> "Car" @@ "data_id" :> "3" @@ "polling" :> "True"
   @@ "odometer" :> "100" @@ "outside_temp" :> "20" @@ "inside_temp" :> "20.5"
   @@ "battery_level" :> "80" @@ "speed" :> "60" @@ "time_to_full_charge" :> "2"
   @@ "carState" :> "Idling" @@ "shift_state" :> "P" @@ "charger_phases" :> "1"
   @@ "state" :> "online" @@ "fast_charger_type" :> "<invalid>"
   @@ "charge_port_led_color" :> "" @@ "charge_port_latch" :> "Engaged"
   @@ "charging_state" :> "Disconnected" @@ "location" :> "Home"
   @@ "climate_keeper_mode" :> "off" @@ "conn_charge_cable" :> "IEC"
   @@ "fast_charger_brand" :> "<invalid>" @@ "newVersionStatus" :> "" )
   @@ [f \in Fields |-> "1"]

AsleepNullFields ==
    {"outside_temp", "inside_temp", "driver_temp_setting", "passenger_temp_setting",
     "fan_status", "speed", "power", "shift_state", "charger_phases", "charger_power",
     "charger_voltage", "center_display_state", "left_temp_direction", "gps_as_of",
     "is_climate_on", "charge_port_cold_weather_mode", "location"}

AsleepBody ==
    ( "carState" :> "Sleeping" @@ "state" :> "asleep" @@ "data_id" :> "3" )
    @@ [f \in Fields |-> IF f \in AsleepNullFields THEN PyNone ELSE AwakeBody[f]]

LastGoodBody ==
    ( "outside_temp" :> "15" @@ "battery_level" :> "70" @@ "data_id" :> "2"
   @@ "speed" :> "0" @@ "location" :> "Work" )
    @@ AwakeBody

BaseBody(base) ==
    CASE base = "awake"    -> AwakeBody
      [] base = "asleep"   -> AsleepBody
      [] base = "lastgood" -> LastGoodBody

Doc(base, field, val) == [base |-> base, field |-> field, val |-> val]

JsonBody(doc) ==
    IF doc.field = NoField THEN BaseBody(doc.base)
    ELSE IF doc.val = Absent
         THEN [f \in DOMAIN BaseBody(doc.base) \ {doc.field} |-> BaseBody(doc.base)[f]]
         ELSE [BaseBody(doc.base) EXCEPT ![doc.field] = doc.val]

(***************************************************************************)
(* Bounds.  NumScrapers scrape requests can be served at a time (the HTTP  *)
(* server runs collect() on one thread per request); MaxFetches bounds     *)
(* the number of snapshots the API hands out in one run.                   *)
(***************************************************************************)
NumScrapers == 2

MaxFetches == 2

(***************************************************************************)
(* callTeslafiApi(command), from the HTTP response on.  A response is      *)
(* [status, json]; json is a document, or the API's error envelope         *)
(* {"response": {...}} given as [response |-> dict].                       *)
(***************************************************************************)
HTTP_OK == 200

IsEnvelope(json) == "response" \in DOMAIN json

TopLevelKeys(json) == IF IsEnvelope(json) THEN {"response"} ELSE DOMAIN JsonBody(json)

(***************************************************************************)
(* A variant that does not look at the status code.                        *)
(***************************************************************************)
callTeslafiApiIgnoresStatus(resp) ==
    IF "response" \in TopLevelKeys(resp.json)
    THEN [ok |-> FALSE, error |-> "Exception",
          message |-> "Unsucessful API response",
          detail |-> IF "result" \in DOMAIN resp.json.response
                     THEN resp.json.response["result"] ELSE ""]
    ELSE Ok(resp.json)

(***************************************************************************)
(* A variant that drops the result of the error envelope.                  *)
(***************************************************************************)
callTeslafiApiDropsResult(resp) ==
    IF resp.status # HTTP_OK
    THEN [ok |-> FALSE, error |-> "Exception",
          message |-> "Error calling TeslaFi API", detail |-> ""]
    ELSE IF "response" \in TopLevelKeys(resp.json)
    THEN [ok |-> FALSE, error |-> "Exception",
          message |-> "Unsucessful API response", detail |-> ""]
    ELSE Ok(resp.json)

callTeslafiApi(resp) ==
    IF resp.status # HTTP_OK
    THEN [ok |-> FALSE, error |-> "Exception",
          message |-> "Error calling TeslaFi API", detail |-> ""]
    ELSE IF "response" \in TopLevelKeys(resp.json)
    THEN [ok |-> FALSE, error |-> "Exception",
          message |-> "Unsucessful API response",
          detail |-> IF "result" \in DOMAIN resp.json.response
                     THEN resp.json.response["result"] ELSE ""]
    ELSE Ok(resp.json)

(***************************************************************************)
(* State.  A snapshot is the dict one successful call returned; it is held *)
(* by reference, [id |-> the ordinal of the call's return, doc |-> its     *)
(* document], and None is NoSnapshot.                                      *)
(*   last_good_data    TeslaFiCollector.last_good_data, shared             *)
(*   upstream          the documents the API answers with, per command     *)
(*   clock             the number of snapshots handed out so far           *)
(*   writer            the scraper that assigned last_good_data last       *)
(*   returned          the collect() that has just returned or raised:     *)
(*                     what it gave its caller, with the calls it made     *)
(*                     and the snapshots it worked on; NoReturn after any  *)
(*                     other step                                          *)
(* and per scraper (a thread running collect()), the frame of collect():   *)
(*   pc                where it is in collect()                            *)
(*   teslafi_data, teslafi_data_old   the locals of collect()              *)
(*   fetched           the value callTeslafiApi('lastGoodTemp') returned,  *)
(*                     before it is assigned to last_good_data             *)
(*   calls             the commands of the calls made by this collect()    *)
(***************************************************************************)
VARIABLES last_good_data, upstream, clock, writer, returned,
          pc, teslafi_data, teslafi_data_old, fetched, calls

vars == <<last_good_data, upstream, clock, writer, returned,
          pc, teslafi_data, teslafi_data_old, fetched, calls>>

NoSnapshot == [id |-> 0]

NoReturn == [kind |-> "none"]

Scrapers == DOMAIN pc

Body(snapshot) == JsonBody(snapshot.doc)

Raised(r) ==
    [kind |-> "raised", error |-> r.error,
     message |-> IF "message" \in DOMAIN r THEN r.message ELSE "",
     detail |-> IF "detail" \in DOMAIN r THEN r.detail ELSE ""]

Batch(metrics) == [kind |-> "batch", metrics |-> metrics]

(***************************************************************************)
(* What the API can answer: any of its documents for the command, a        *)
(* status other than 200, or an error envelope with or without a result.   *)
(* Once MaxFetches snapshots have been handed out it answers with errors   *)
(* only.                                                                   *)
(***************************************************************************)
Command(c) == IF c = PyNone \/ c = "" THEN "current" ELSE c

Answers(docs) ==
    {[status |-> HTTP_OK, json |-> d] : d \in docs}
    \cup {[status |-> 500, json |-> [response |-> <<>>]],
          [status |-> HTTP_OK, json |-> [response |-> [result |-> "unauthorized"]]],
          [status |-> HTTP_OK, json |-> [response |-> <<>>]]}

Responses(c) == Answers(IF clock < MaxFetches THEN upstream[Command(c)] ELSE {})

ProtocolUpstream ==
    [current |-> {Doc("awake", NoField, ""), Doc("asleep", NoField, "")},
     lastGoodTemp |-> {Doc("lastgood", NoField, ""), Doc("asleep", NoField, "")}]

(***************************************************************************)
(* The documents used to exercise the mapping: a base document with one    *)
(* field set in turn to null, '', a missing key, a string that is no       *)
(* number and no known state, another number, and each state the catalog   *)
(* knows for the field.  An awake vehicle answers with such a document; an *)
(* asleep one does too, with the same field changed in what lastGoodTemp   *)
(* answers.                                                                *)
(***************************************************************************)
FlagValues(f) ==
    UNION {{m.flags[i][2] : i \in DOMAIN m.flags} :
              m \in {c \in Range(Catalog) : c.kind = "stateset" /\ c.field = f}}

FieldValues(f) == {PyNone, "", Absent, "Other", "2"} \cup FlagValues(f)

MissingValues == {PyNone, "", Absent}

MapUpstreams ==
    {ProtocolUpstream,
     [current |-> {Doc("awake", NoField, ""), Doc("awake", "outside_temp", Absent)},
      lastGoodTemp |-> {Doc("lastgood", NoField, "")}]}
    \cup {[current |-> {Doc("awake", f, "70")},
           lastGoodTemp |-> {Doc("lastgood", NoField, "")}] :
             f \in {"odometer", "speed", "charge_rate"}}
    \cup {[current |-> {Doc("awake", f, v)},
           lastGoodTemp |-> {Doc("lastgood", NoField, "")}] :
             f \in Fields, v \in {PyNone, "", Absent, "Other", "2"}}
    \cup UNION {{[current |-> {Doc("awake", f, v)},
                  lastGoodTemp |-> {Doc("lastgood", NoField, "")}] :
                    v \in FlagValues(f)} : f \in Fields}
    \cup UNION {{[current |-> {Doc("asleep", f, v)},
                  lastGoodTemp |-> {Doc("lastgood", f, w)}] :
                    v \in MissingValues, w \in FieldValues(f)} : f \in Fields}

(***************************************************************************)
(* A vehicle whose documents differ from fetch to fetch in one enumerated  *)
(* field: awake with a value outside the enumeration, asleep with one in   *)
(* it.                                                                     *)
(***************************************************************************)
FlagFields == {"carState", "climate_keeper_mode"}

FlagUpstreams ==
    {[current |-> {Doc("awake", f, "Other"), Doc("asleep", NoField, "")},
      lastGoodTemp |-> {Doc("lastgood", NoField, "")}] : f \in FlagFields}

(***************************************************************************)
(* The constructor.  `last_good_data = None` is the class attribute;       *)
(* __init__ ends with registry.register(self).  What register() does is    *)
(* the registry's business: prometheus_client.REGISTRY, the default,       *)
(* describes a collector without describe() by calling its collect() once  *)
(* (auto_describe); a CollectorRegistry() made without auto_describe does  *)
(* not call it.  That first collect() runs alone, on the constructing      *)
(* thread, with last_good_data None; when it raises, register() and the    *)
(* constructor raise and no collector exists.                              *)
(*                                                                         *)
(* collectOnce(up) is the set of outcomes of that first collect() against  *)
(* the API up: the cache and the number of snapshots fetched when it       *)
(* returns, or the exception.                                              *)
(***************************************************************************)
collectOnce(up) ==
    UNION {
        LET r == callTeslafiApi(resp)
            s == [id |-> 1, doc |-> r.v]
        IN  IF ~r.ok THEN {r}
            ELSE IF "outside_temp" \notin DOMAIN Body(s) THEN {Raise("KeyError")}
            ELSE IF Body(s)["outside_temp"] = PyNone
            THEN {LET q == callTeslafiApi(old)
                      f == [id |-> 2, doc |-> q.v]
                      m == MapMetrics(Body(s), Body(f))
                  IN  IF ~q.ok THEN q
                      ELSE IF ~m.ok THEN m
                      ELSE Ok([last_good_data |-> f, clock |-> 2]) :
                    old \in Answers(up[Command("lastGoodTemp")])}
            ELSE LET m == MapMetrics(Body(s), Body(s))
                 IN  {IF ~m.ok THEN m ELSE Ok([last_good_data |-> s, clock |-> 1])} :
        resp \in Answers(up[Command(PyNone)])}

(***************************************************************************)
(* The registries a collector is constructed with, by what register()      *)
(* does: "describing" calls collect() (prometheus_client.REGISTRY),        *)
(* "plain" does not.  Constructed(up, registry) is what the constructor    *)
(* can leave behind when it returns; it is empty when it can only raise.   *)
(***************************************************************************)
Registries == {"describing", "plain"}

Constructed(up, registry) ==
    IF registry = "plain"
    THEN {[last_good_data |-> NoSnapshot, clock |-> 0]}
    ELSE {o.v : o \in {x \in collectOnce(up) : x.ok}}

(***************************************************************************)
(* The state after construction: the cache as register() left it, no       *)
(* collect() running on any of the n scrapers, the API answering from one  *)
(* of pool.                                                                *)
(***************************************************************************)
Start(n, pool) ==
    /\ upstream \in pool
    /\ \E registry \in Registries : \E c \in Constructed(upstream, registry) :
          /\ last_good_data = c.last_good_data
          /\ clock = c.clock
    /\ writer = 0
    /\ returned = NoReturn
    /\ pc = [t \in 1..n |-> "idle"]
    /\ teslafi_data = [t \in 1..n |-> NoSnapshot]
    /\ teslafi_data_old = [t \in 1..n |-> NoSnapshot]
    /\ fetched = [t \in 1..n |-> NoSnapshot]
    /\ calls = [t \in 1..n |-> <<>>]

Init == Start(NumScrapers, {ProtocolUpstream})

MapInit == Start(1, MapUpstreams)

FlagInit == Start(NumScrapers, FlagUpstreams)

(***************************************************************************)
(* collect() of scraper t ends with `outcome` (a batch returned or an      *)
(* exception raised): its frame is gone, and `returned` tells what it      *)
(* was, data and data_old being its locals at that moment.                 *)
(***************************************************************************)
Leave(t, outcome, data, data_old) ==
    /\ returned' = [scraper |-> t, calls |-> calls[t], fetched |-> fetched[t],
                    teslafi_data |-> data, teslafi_data_old |-> data_old] @@ outcome
    /\ pc' = [pc EXCEPT ![t] = "idle"]
    /\ teslafi_data' = [teslafi_data EXCEPT ![t] = NoSnapshot]
    /\ teslafi_data_old' = [teslafi_data_old EXCEPT ![t] = NoSnapshot]
    /\ fetched' = [fetched EXCEPT ![t] = NoSnapshot]
    /\ calls' = [calls EXCEPT ![t] = <<>>]

(***************************************************************************)
(* A variant whose first call carries the lastGoodTemp command.            *)
(***************************************************************************)
BeginWithCommand(t) ==
    /\ pc[t] = "idle"
    /\ pc' = [pc EXCEPT ![t] = "primary"]
    /\ calls' = [calls EXCEPT ![t] = <<"lastGoodTemp">>]
    /\ returned' = NoReturn
    /\ UNCHANGED <<last_good_data, upstream, clock, writer,
                   teslafi_data, teslafi_data_old, fetched>>

(***************************************************************************)
(* collect() is entered: the first call, callTeslafiApi(None), is sent.    *)
(***************************************************************************)
Begin(t) ==
    /\ pc[t] = "idle"
    /\ pc' = [pc EXCEPT ![t] = "primary"]
    /\ calls' = [calls EXCEPT ![t] = <<PyNone>>]
    /\ returned' = NoReturn
    /\ UNCHANGED <<last_good_data, upstream, clock, writer,
                   teslafi_data, teslafi_data_old, fetched>>

(***************************************************************************)
(* A variant whose completeness test also takes '' as missing.             *)
(***************************************************************************)
PrimaryResponseEmptyIsIncomplete(t) ==
    /\ pc[t] = "primary"
    /\ \E resp \in Responses(PyNone) :
         LET r == callTeslafiApi(resp)
             s == [id |-> clock + 1, doc |-> r.v]
         IN  IF ~r.ok
             THEN /\ Leave(t, Raised(r), NoSnapshot, NoSnapshot)
                  /\ UNCHANGED clock
             ELSE /\ clock' = clock + 1
                  /\ IF "outside_temp" \notin DOMAIN Body(s)
                     THEN Leave(t, Raised(Raise("KeyError")), s, NoSnapshot)
                     ELSE /\ teslafi_data' = [teslafi_data EXCEPT ![t] = s]
                          /\ IF Body(s)["outside_temp"] \in {PyNone, ""}
                             THEN /\ pc' = [pc EXCEPT ![t] = "testCache"]
                                  /\ UNCHANGED teslafi_data_old
                             ELSE /\ teslafi_data_old' = [teslafi_data_old EXCEPT ![t] = s]
                                  /\ pc' = [pc EXCEPT ![t] = "storeCurrent"]
                          /\ returned' = NoReturn
                          /\ UNCHANGED <<fetched, calls>>
    /\ UNCHANGED <<last_good_data, upstream, writer>>

(***************************************************************************)
(* The first call returns or raises; on return the test                    *)
(* `teslafi_data["outside_temp"] is None` picks the branch, and the        *)
(* complete branch assigns teslafi_data_old = teslafi_data.                *)
(***************************************************************************)
PrimaryResponse(t) ==
    /\ pc[t] = "primary"
    /\ \E resp \in Responses(PyNone) :
         LET r == callTeslafiApi(resp)
             s == [id |-> clock + 1, doc |-> r.v]
         IN  IF ~r.ok
             THEN /\ Leave(t, Raised(r), NoSnapshot, NoSnapshot)
                  /\ UNCHANGED clock
             ELSE /\ clock' = clock + 1
                  /\ IF "outside_temp" \notin DOMAIN Body(s)
                     THEN Leave(t, Raised(Raise("KeyError")), s, NoSnapshot)
                     ELSE /\ teslafi_data' = [teslafi_data EXCEPT ![t] = s]
                          /\ IF Body(s)["outside_temp"] = PyNone
                             THEN /\ pc' = [pc EXCEPT ![t] = "testCache"]
                                  /\ UNCHANGED teslafi_data_old
                             ELSE /\ teslafi_data_old' = [teslafi_data_old EXCEPT ![t] = s]
                                  /\ pc' = [pc EXCEPT ![t] = "storeCurrent"]
                          /\ returned' = NoReturn
                          /\ UNCHANGED <<fetched, calls>>
    /\ UNCHANGED <<last_good_data, upstream, writer>>

(***************************************************************************)
(* A variant that calls lastGoodTemp whether the cache is set or not.      *)
(***************************************************************************)
TestCacheAlwaysFetches(t) ==
    /\ pc[t] = "testCache"
    /\ calls' = [calls EXCEPT ![t] = Append(calls[t], "lastGoodTemp")]
    /\ pc' = [pc EXCEPT ![t] = "fallback"]
    /\ returned' = NoReturn
    /\ UNCHANGED <<last_good_data, upstream, clock, writer,
                   teslafi_data, teslafi_data_old, fetched>>

(***************************************************************************)
(* `if self.last_good_data is None:` and, when it is, the sending of       *)
(* callTeslafiApi('lastGoodTemp').                                         *)
(***************************************************************************)
TestCache(t) ==
    /\ pc[t] = "testCache"
    /\ IF last_good_data = NoSnapshot
       THEN /\ calls' = [calls EXCEPT ![t] = Append(calls[t], "lastGoodTemp")]
            /\ pc' = [pc EXCEPT ![t] = "fallback"]
       ELSE /\ pc' = [pc EXCEPT ![t] = "readCache"]
            /\ UNCHANGED calls
    /\ returned' = NoReturn
    /\ UNCHANGED <<last_good_data, upstream, clock, writer,
                   teslafi_data, teslafi_data_old, fetched>>

(***************************************************************************)
(* A variant that goes on without fallback data when the lastGoodTemp      *)
(* call raises.                                                            *)
(***************************************************************************)
FallbackResponseSwallowsFailure(t) ==
    /\ pc[t] = "fallback"
    /\ \E resp \in Responses("lastGoodTemp") :
         LET r == callTeslafiApi(resp)
         IN  IF ~r.ok
             THEN /\ teslafi_data_old' = [teslafi_data_old EXCEPT ![t] = teslafi_data[t]]
                  /\ pc' = [pc EXCEPT ![t] = "map"]
                  /\ returned' = NoReturn
                  /\ UNCHANGED <<clock, teslafi_data, fetched, calls>>
             ELSE /\ fetched' = [fetched EXCEPT ![t] = [id |-> clock + 1, doc |-> r.v]]
                  /\ clock' = clock + 1
                  /\ pc' = [pc EXCEPT ![t] = "storeFallback"]
                  /\ returned' = NoReturn
                  /\ UNCHANGED <<teslafi_data, teslafi_data_old, calls>>
    /\ UNCHANGED <<last_good_data, upstream, writer>>

(***************************************************************************)
(* A variant that caches the current snapshot when the lastGoodTemp call   *)
(* raises.                                                                 *)
(***************************************************************************)
FallbackResponseCachesOnFailure(t) ==
    /\ pc[t] = "fallback"
    /\ \E resp \in Responses("lastGoodTemp") :
         LET r == callTeslafiApi(resp)
         IN  IF ~r.ok
             THEN /\ Leave(t, Raised(r), teslafi_data[t], NoSnapshot)
                  /\ last_good_data' = teslafi_data[t]
                  /\ writer' = t
                  /\ UNCHANGED clock
             ELSE /\ fetched' = [fetched EXCEPT ![t] = [id |-> clock + 1, doc |-> r.v]]
                  /\ clock' = clock + 1
                  /\ pc' = [pc EXCEPT ![t] = "storeFallback"]
                  /\ returned' = NoReturn
                  /\ UNCHANGED <<teslafi_data, teslafi_data_old, calls, last_good_data, writer>>
    /\ UNCHANGED upstream

(***************************************************************************)
(* callTeslafiApi('lastGoodTemp') returns or raises.                       *)
(***************************************************************************)
FallbackResponse(t) ==
    /\ pc[t] = "fallback"
    /\ \E resp \in Responses("lastGoodTemp") :
         LET r == callTeslafiApi(resp)
         IN  IF ~r.ok
             THEN /\ Leave(t, Raised(r), teslafi_data[t], NoSnapshot)
                  /\ UNCHANGED clock
             ELSE /\ fetched' = [fetched EXCEPT ![t] = [id |-> clock + 1, doc |-> r.v]]
                  /\ clock' = clock + 1
                  /\ pc' = [pc EXCEPT ![t] = "storeFallback"]
                  /\ returned' = NoReturn
                  /\ UNCHANGED <<teslafi_data, teslafi_data_old, calls>>
    /\ UNCHANGED <<last_good_data, upstream, writer>>

(***************************************************************************)
(* A variant that caches the current snapshot instead of the value         *)
(* callTeslafiApi('lastGoodTemp') returned.                                *)
(***************************************************************************)
StoreFallbackKeepsCurrent(t) ==
    /\ pc[t] = "storeFallback"
    /\ last_good_data' = teslafi_data[t]
    /\ writer' = t
    /\ pc' = [pc EXCEPT ![t] = "readCache"]
    /\ returned' = NoReturn
    /\ UNCHANGED <<upstream, clock, teslafi_data, teslafi_data_old, fetched, calls>>

(***************************************************************************)
(* `self.last_good_data = <the value returned>`.                           *)
(***************************************************************************)
StoreFallback(t) ==
    /\ pc[t] = "storeFallback"
    /\ last_good_data' = fetched[t]
    /\ writer' = t
    /\ pc' = [pc EXCEPT ![t] = "readCache"]
    /\ returned' = NoReturn
    /\ UNCHANGED <<upstream, clock, teslafi_data, teslafi_data_old, fetched, calls>>

(***************************************************************************)
(* `teslafi_data_old = self.last_good_data`.                               *)
(***************************************************************************)
ReadCache(t) ==
    /\ pc[t] = "readCache"
    /\ teslafi_data_old' = [teslafi_data_old EXCEPT ![t] = last_good_data]
    /\ pc' = [pc EXCEPT ![t] = "map"]
    /\ returned' = NoReturn
    /\ UNCHANGED <<last_good_data, upstream, clock, writer, teslafi_data, fetched, calls>>

(***************************************************************************)
(* A variant of the complete branch that does not refresh the cache.       *)
(***************************************************************************)
StoreCurrentSkipped(t) ==
    /\ pc[t] = "storeCurrent"
    /\ pc' = [pc EXCEPT ![t] = "map"]
    /\ returned' = NoReturn
    /\ UNCHANGED <<last_good_data, writer, upstream, clock,
                   teslafi_data, teslafi_data_old, fetched, calls>>

(***************************************************************************)
(* `self.last_good_data = teslafi_data` of the complete branch.            *)
(***************************************************************************)
StoreCurrent(t) ==
    /\ pc[t] = "storeCurrent"
    /\ last_good_data' = teslafi_data[t]
    /\ writer' = t
    /\ pc' = [pc EXCEPT ![t] = "map"]
    /\ returned' = NoReturn
    /\ UNCHANGED <<upstream, clock, teslafi_data, teslafi_data_old, fetched, calls>>

(***************************************************************************)
(* A variant in which an exception of the mapping resets the cache.        *)
(***************************************************************************)
MapResetsCache(t) ==
    /\ pc[t] = "map"
    /\ LET r == MapMetrics(Body(teslafi_data[t]), Body(teslafi_data_old[t]))
       IN  /\ Leave(t, IF r.ok THEN Batch(r.v) ELSE Raised(r),
                    teslafi_data[t], teslafi_data_old[t])
           /\ last_good_data' = IF r.ok THEN last_good_data ELSE NoSnapshot
    /\ UNCHANGED <<upstream, clock, writer>>

(***************************************************************************)
(* A variant that resolves against self.last_good_data as it is when the   *)
(* metrics are built, not against the local teslafi_data_old.              *)
(***************************************************************************)
MapReadsCacheAgain(t) ==
    /\ pc[t] = "map"
    /\ LET r == MapMetrics(Body(teslafi_data[t]), Body(last_good_data))
       IN  Leave(t, IF r.ok THEN Batch(r.v) ELSE Raised(r),
                 teslafi_data[t], last_good_data)
    /\ UNCHANGED <<last_good_data, upstream, clock, writer>>

(***************************************************************************)
(* A variant that maps the fallback snapshot alone.                        *)
(***************************************************************************)
MapUsesFallbackOnly(t) ==
    /\ pc[t] = "map"
    /\ LET r == MapMetrics(Body(teslafi_data_old[t]), Body(teslafi_data_old[t]))
       IN  Leave(t, IF r.ok THEN Batch(r.v) ELSE Raised(r),
                 teslafi_data[t], teslafi_data_old[t])
    /\ UNCHANGED <<last_good_data, upstream, clock, writer>>

(***************************************************************************)
(* The rest of collect(): the metrics are built and returned, or the       *)
(* first exception leaves collect().                                       *)
(***************************************************************************)
Map(t) ==
    /\ pc[t] = "map"
    /\ LET r == MapMetrics(Body(teslafi_data[t]), Body(teslafi_data_old[t]))
       IN  Leave(t, IF r.ok THEN Batch(r.v) ELSE Raised(r),
                 teslafi_data[t], teslafi_data_old[t])
    /\ UNCHANGED <<last_good_data, upstream, clock, writer>>

Next ==
    \E t \in Scrapers :
        \/ Begin(t)
        \/ PrimaryResponse(t)
        \/ TestCache(t)
        \/ FallbackResponse(t)
        \/ StoreFallback(t)
        \/ ReadCache(t)
        \/ StoreCurrent(t)
        \/ Map(t)

Spec == Init /\ [][Next]_vars

(***************************************************************************)
(* One scraper, scraping a vehicle whose documents vary in one field.      *)
(***************************************************************************)
MapSpec == MapInit /\ [][Next]_vars

(***************************************************************************)
(* Overlapping scrapes of a vehicle whose enumerated fields change.        *)
(***************************************************************************)
FlagSpec == FlagInit /\ [][Next]_vars

(***************************************************************************)
(*                     Properties of the reconciliation                    *)
(***************************************************************************)
Complete(s) ==
    /\ s # NoSnapshot
    /\ "outside_temp" \in DOMAIN Body(s)
    /\ Body(s)["outside_temp"] # PyNone

NullTemp(s) ==
    /\ s # NoSnapshot
    /\ "outside_temp" \in DOMAIN Body(s)
    /\ Body(s)["outside_temp"] = PyNone

(* Scraper t takes a step: every step of collect() moves its pc. *)
Steps(t) == pc'[t] # pc[t]

(* collect() has just ended after it reached the mapping. *)
Mapped == returned.kind # "none" /\ returned.teslafi_data_old # NoSnapshot

(***************************************************************************)
(* C1.  A collect() whose first call returns a snapshot with a non-null    *)
(* outside_temp resolves its fields with that snapshot as the fallback     *)
(* source too, and assigns it to last_good_data whatever was there: the    *)
(* assignment puts it there, and it is there when collect() ends unless    *)
(* an overlapping collect() has assigned last_good_data in between.        *)
(***************************************************************************)
C1_CompleteIsFallbackAndCached ==
    /\ [][\A t \in Scrapers :
            (pc[t] = "storeCurrent" /\ Steps(t)) => last_good_data' = teslafi_data[t]]_vars
    /\ [](\A t \in Scrapers :
            (pc[t] \in {"storeCurrent", "map"} /\ Complete(teslafi_data[t]))
                => teslafi_data_old[t] = teslafi_data[t])
    /\ []((Mapped /\ Complete(returned.teslafi_data))
            => /\ returned.teslafi_data_old = returned.teslafi_data
               /\ last_good_data # NoSnapshot
               /\ writer = returned.scraper => last_good_data = returned.teslafi_data)

C1_Witness ==
    /\ returned.kind = "batch"
    /\ Complete(returned.teslafi_data)
    /\ returned.teslafi_data_old = returned.teslafi_data
    /\ last_good_data = returned.teslafi_data
    /\ returned.teslafi_data.id > 1

(***************************************************************************)
(* C2.  A collect() whose first call returns a snapshot with a null        *)
(* outside_temp and which finds last_good_data unset makes exactly one     *)
(* more call, after the first and with command "lastGoodTemp"; what that   *)
(* call returns is assigned to last_good_data, and is the fallback source  *)
(* of the pass when no overlapping collect() assigns in between.           *)
(***************************************************************************)
C2_UnsetCacheFetchesLastGoodTemp ==
    /\ [][\A t \in Scrapers :
            (pc[t] = "testCache" /\ last_good_data = NoSnapshot /\ Steps(t))
                => /\ NullTemp(teslafi_data[t])
                   /\ calls[t] = <<PyNone>>
                   /\ calls'[t] = <<PyNone, "lastGoodTemp">>
                   /\ pc'[t] = "fallback"]_vars
    /\ [][\A t \in Scrapers :
            (pc[t] \in {"fallback", "storeFallback", "readCache", "map"} /\ Steps(t))
                => calls'[t] \in {calls[t], <<>>}]_vars
    /\ [][\A t \in Scrapers :
            (pc[t] = "fallback" /\ Steps(t) /\ pc'[t] # "idle")
                => fetched'[t].id > teslafi_data[t].id]_vars
    /\ [][\A t \in Scrapers :
            (pc[t] = "storeFallback" /\ Steps(t)) => last_good_data' = fetched[t]]_vars
    /\ [][\A t \in Scrapers :
            (pc[t] = "readCache" /\ fetched[t] # NoSnapshot /\ writer = t /\ Steps(t))
                => teslafi_data_old'[t] = fetched[t]]_vars
    /\ []((Mapped /\ returned.fetched # NoSnapshot)
            => /\ returned.calls = <<PyNone, "lastGoodTemp">>
               /\ writer = returned.scraper
                    => /\ returned.teslafi_data_old = returned.fetched
                       /\ last_good_data = returned.fetched)

C2_Witness ==
    /\ returned.kind = "batch"
    /\ NullTemp(returned.teslafi_data)
    /\ returned.calls = <<PyNone, "lastGoodTemp">>
    /\ returned.fetched.id = returned.teslafi_data.id + 1
    /\ returned.teslafi_data_old = returned.fetched
    /\ last_good_data = returned.fetched

(***************************************************************************)
(* C3.  A collect() whose first call returns a snapshot with a null        *)
(* outside_temp and which finds last_good_data set makes no second call,   *)
(* none of its steps changes last_good_data, and the fallback source of    *)
(* the pass is the value of last_good_data it reads.                       *)
(***************************************************************************)
CachedPass(t) ==
    \/ pc[t] = "testCache" /\ last_good_data # NoSnapshot
    \/ pc[t] \in {"readCache", "map"} /\ NullTemp(teslafi_data[t]) /\ fetched[t] = NoSnapshot

C3_SetCacheIsUsedUnchanged ==
    [][\A t \in Scrapers :
         (CachedPass(t) /\ Steps(t))
            => /\ last_good_data' = last_good_data
               /\ calls[t] = <<PyNone>>
               /\ pc[t] = "testCache" => (pc'[t] = "readCache" /\ calls'[t] = calls[t])
               /\ pc[t] = "readCache"
                    => /\ pc'[t] = "map" /\ calls'[t] = calls[t]
                       /\ teslafi_data_old'[t] = last_good_data
                       /\ last_good_data # NoSnapshot
               /\ pc[t] = "map"
                    => /\ returned'.calls = <<PyNone>>
                       /\ returned'.teslafi_data_old = teslafi_data_old[t]]_vars

C3_Witness ==
    /\ returned.kind = "batch"
    /\ NullTemp(returned.teslafi_data)
    /\ returned.calls = <<PyNone>>
    /\ returned.fetched = NoSnapshot
    /\ returned.teslafi_data_old = last_good_data
    /\ Complete(last_good_data)

(***************************************************************************)
(* C4.  A response to the first call with a status other than 200 makes    *)
(* callTeslafiApi raise "Error calling TeslaFi API"; a collect() whose     *)
(* first call raises ends there: no batch is returned, the exception       *)
(* reaches the caller, and no step of that collect() has changed           *)
(* last_good_data, set or unset.                                           *)
(***************************************************************************)
TransportFailure(r) == ~r.ok /\ r.message = "Error calling TeslaFi API"

C4_TransportFailureLeavesCache ==
    /\ [](\A resp \in Responses(PyNone) :
            resp.status # HTTP_OK <=> TransportFailure(callTeslafiApi(resp)))
    /\ [][\A t \in Scrapers :
            (pc[t] \in {"idle", "primary"} /\ Steps(t))
                => /\ last_good_data' = last_good_data
                   /\ (pc[t] = "primary" /\ clock' = clock)
                        => /\ pc'[t] = "idle"
                           /\ returned'.kind = "raised"
                           /\ returned'.scraper = t
                           /\ returned'.error = "Exception"
                           /\ returned'.teslafi_data = NoSnapshot]_vars

C4_Witness ==
    /\ returned.kind = "raised"
    /\ returned.message = "Error calling TeslaFi API"
    /\ returned.calls = <<PyNone>>
    /\ returned.teslafi_data = NoSnapshot
    /\ Complete(last_good_data)

(***************************************************************************)
(* C5.  The test of last_good_data and its assignment are serialized:      *)
(* two overlapping collect() that both get a null outside_temp while       *)
(* last_good_data is unset never both call lastGoodTemp.                   *)
(***************************************************************************)
CallsLastGoodTemp(t) == "lastGoodTemp" \in Range(calls[t])

C5_AtMostOneLastGoodTempFetch ==
    \A t1, t2 \in Scrapers :
        (CallsLastGoodTemp(t1) /\ CallsLastGoodTemp(t2)) => t1 = t2

(***************************************************************************)
(* C6.  last_good_data is always unset or a snapshot whose outside_temp    *)
(* is non-null, whether it was assigned from the first call or from the    *)
(* lastGoodTemp call.                                                      *)
(***************************************************************************)
C6_CacheIsUnsetOrComplete ==
    last_good_data = NoSnapshot \/ Complete(last_good_data)

(***************************************************************************)
(* C7.  last_good_data is unset at startup: as long as no collect() has    *)
(* fetched a snapshot (the first may be the one register() runs in the     *)
(* constructor) it is None, and what it holds was fetched by a collect().  *)
(* Once it is set no step of any collect(), returning or raising, unsets   *)
(* it.                                                                     *)
(***************************************************************************)
C7_SetCacheStaysSet ==
    /\ [](clock = 0 => last_good_data = NoSnapshot)
    /\ [](last_good_data # NoSnapshot => last_good_data.id \in 1..clock)
    /\ [][last_good_data # NoSnapshot => last_good_data' # NoSnapshot]_vars

C7_Witness ==
    /\ last_good_data # NoSnapshot
    /\ returned.kind = "raised"
    /\ returned.teslafi_data_old = last_good_data

(***************************************************************************)
(* C8.  Once last_good_data is set, an assignment replaces it only by a    *)
(* snapshot with a non-null outside_temp that was fetched later than the   *)
(* one it replaces, also when collect() calls overlap.                     *)
(***************************************************************************)
C8_ReplacedOnlyByLaterComplete ==
    [][(last_good_data # NoSnapshot /\ last_good_data' # last_good_data)
          => /\ Complete(last_good_data')
             /\ last_good_data'.id > last_good_data.id]_vars

(***************************************************************************)
(*                        Properties of the mapping                        *)
(***************************************************************************)
Observations(m) == IF m.kind \in {"counter", "gauge"} THEN Len(m.obs) ELSE 1

SubLabelled ==
    [teslafi_number |-> 4, teslafi_door_open |-> 6,
     teslafi_window_open |-> 4, teslafi_seat_heater |-> 5]

(***************************************************************************)
(* C9.  Every batch collect() returns holds every family of the catalog    *)
(* exactly once, in the catalog's order, each with its fixed number of     *)
(* observations: one, or one per sub-label (4 state counters, 6 doors, 4   *)
(* windows, 5 seat heaters), whichever fields are null in the current and  *)
(* in the fallback snapshot.                                               *)
(***************************************************************************)
C9_BatchHoldsWholeCatalog ==
    returned.kind = "batch" =>
        LET metrics == returned.metrics
        IN  /\ Len(metrics) = Len(Catalog)
            /\ Cardinality({metrics[i].name : i \in DOMAIN metrics}) = Len(metrics)
            /\ \A i \in DOMAIN metrics :
                 /\ metrics[i].name = Catalog[i].name
                 /\ Len(metrics[i].samples) = Observations(Catalog[i])
                 /\ Len(metrics[i].samples) =
                        IF metrics[i].name \in DOMAIN SubLabelled
                        THEN SubLabelled[metrics[i].name] ELSE 1

C9_Witness ==
    /\ returned.kind = "batch"
    /\ returned.teslafi_data.doc.field # NoField
    /\ returned.teslafi_data.doc.val = PyNone
    /\ returned.teslafi_data_old.doc.field = returned.teslafi_data.doc.field
    /\ returned.teslafi_data_old.doc.val = PyNone
    /\ returned.teslafi_data_old # returned.teslafi_data

(***************************************************************************)
(* C10.  In every batch collect() returns, each state set family has       *)
(* exactly one flag set to true, whatever its field resolves to, null and  *)
(* the empty string included.                                              *)
(***************************************************************************)
TrueFlags(m) == {k \in DOMAIN m.samples[1].value : m.samples[1].value[k]}

C10_ExactlyOneFlagTrue ==
    returned.kind = "batch" =>
        \A i \in DOMAIN returned.metrics :
            returned.metrics[i].kind = "stateset"
                => Cardinality(TrueFlags(returned.metrics[i])) = 1

(***************************************************************************)
(* The state set families of a batch, each with its catalog entry, the     *)
(* value getSetData resolved for its field and the flags it carries.       *)
(***************************************************************************)
ReturnedStateSets ==
    {[m |-> Catalog[i],
      resolved |-> getSetData(Body(returned.teslafi_data), Body(returned.teslafi_data_old),
                              Catalog[i].field, Catalog[i].default).v,
      flags |-> returned.metrics[i].samples[1].value] :
        i \in {j \in DOMAIN returned.metrics : returned.metrics[j].kind = "stateset"}}

OnlyFlagTrue(flags, m, v) ==
    /\ v \in DOMAIN flags
    /\ flags[v]
    /\ \A k \in FixedFlags(m) : ~flags[k]

(***************************************************************************)
(* Everything collect() evaluates apart from the state dicts and their     *)
(* add_metric raises nothing: the labels, the info, counter and gauge      *)
(* families and the getSetData of every state set.                         *)
(***************************************************************************)
OnlyStateDictsCanRaise(current, fallback) ==
    /\ label_values(current, fallback).ok
    /\ \A i \in DOMAIN Catalog :
          IF Catalog[i].kind = "stateset"
          THEN getSetData(current, fallback, Catalog[i].field, Catalog[i].default).ok
          ELSE MapMetric(current, fallback, << >>, Catalog[i]).ok

(***************************************************************************)
(* C11, as stated.  When the value resolved for a state set's field is     *)
(* not in the family's fixed enumeration, collect() does not abort: the    *)
(* batch is returned with a flag named after that literal value set to     *)
(* true and every flag of the enumeration set to false.                    *)
(***************************************************************************)
C11_UnknownValueGetsOwnFlag ==
    (Mapped /\ OnlyStateDictsCanRaise(Body(returned.teslafi_data),
                                      Body(returned.teslafi_data_old))) =>
        /\ returned.kind = "batch"
        /\ \A s \in ReturnedStateSets :
              s.resolved \notin FixedFlags(s.m) => OnlyFlagTrue(s.flags, s.m, s.resolved)

\* collect() raises in add_metric: the value None became a key of the dict.
C11_AbortsOnNone ==
    /\ Mapped
    /\ OnlyStateDictsCanRaise(Body(returned.teslafi_data), Body(returned.teslafi_data_old))
    /\ returned.kind = "raised"
    /\ returned.error = "TypeError"
    /\ Body(returned.teslafi_data)["carState"] = PyNone
    /\ Body(returned.teslafi_data_old)["carState"] = PyNone

(***************************************************************************)
(* C11, amended.  The family first rewrites the resolved value (null, ''   *)
(* or '<invalid>' become 'None' or 'Unknown' where the family says so);    *)
(* when the rewritten value is a string that is not in the fixed           *)
(* enumeration, the batch is returned with a flag named after the          *)
(* rewritten value set to true and every flag of the enumeration set to    *)
(* false.                                                                  *)
(***************************************************************************)
C11_UnknownRewrittenValueGetsOwnFlag ==
    returned.kind = "batch" =>
        \A s \in ReturnedStateSets :
            LET v == Rewritten(s.m, s.resolved)
            IN  (v # PyNone /\ v \notin FixedFlags(s.m)) => OnlyFlagTrue(s.flags, s.m, v)

C11_Witness ==
    /\ returned.kind = "batch"
    /\ returned.teslafi_data.doc.val = "Other"
    /\ \E s \in ReturnedStateSets :
         /\ s.m.field = returned.teslafi_data.doc.field
         /\ s.resolved = "Other"
         /\ s.flags["Other"]

(***************************************************************************)
(* The observations of the counters and gauges, and when a field is        *)
(* null or '' in a snapshot.  An observation has a declared default when   *)
(* getSetData is given one or the code replaces a None result by -1.       *)
(***************************************************************************)
NumericObservations ==
    UNION {Range(m.obs) : m \in {c \in Range(Catalog) : c.kind \in {"counter", "gauge"}}}

NoDefaultObservations ==
    {o \in NumericObservations : o.default = PyNone /\ o.conv # "intOrMinus1"}

Missing(body, f) == f \in DOMAIN body /\ body[f] \in {PyNone, ""}

MissingInBoth(f) ==
    /\ Missing(Body(returned.teslafi_data), f)
    /\ Missing(Body(returned.teslafi_data_old), f)

(***************************************************************************)
(* C12.  When a counter or gauge field without a declared default is null  *)
(* or '' in both the current and the fallback snapshot, collect() raises:  *)
(* no batch is returned for such a pair of snapshots (data_id and polling  *)
(* included).                                                              *)
(***************************************************************************)
C12_MissingNumericFailsScrape ==
    returned.kind = "batch" =>
        \A o \in NoDefaultObservations : ~MissingInBoth(o.field)

(***************************************************************************)
(* C13.  For every field carried by both snapshots, getSetData returns     *)
(* the current snapshot's value when it is neither null nor ''; otherwise  *)
(* the fallback snapshot's value when that is neither null nor '';         *)
(* otherwise the declared default, null when none is declared.  The        *)
(* vehicle labels and the data_id counter of a batch are values resolved   *)
(* so.                                                                     *)
(***************************************************************************)
Usable(v) == v # PyNone /\ v # ""

Precedence(current, fallback, f, default) ==
    IF Usable(current[f]) THEN current[f]
    ELSE IF Usable(fallback[f]) THEN fallback[f]
    ELSE default

Defaults == {PyNone, "", "-1"}

Resolving(t) == pc[t] = "map"

C13_ResolveTakesCurrentThenFallbackThenDefault ==
    /\ \A t \in Scrapers :
         Resolving(t) =>
            LET current == Body(teslafi_data[t])
                fallback == Body(teslafi_data_old[t])
            IN  \A f \in DOMAIN current \cap DOMAIN fallback : \A d \in Defaults :
                    getSetData(current, fallback, f, d) = Ok(Precedence(current, fallback, f, d))
    /\ returned.kind = "batch" =>
         LET current == Body(returned.teslafi_data)
             fallback == Body(returned.teslafi_data_old)
         IN  \E i \in DOMAIN returned.metrics :
                /\ returned.metrics[i].name = "teslafi_data_id"
                /\ returned.metrics[i].samples[1].value =
                        Precedence(current, fallback, "data_id", PyNone)
                /\ returned.metrics[i].samples[1].labels =
                        << Precedence(current, fallback, "vin", PyNone),
                           Precedence(current, fallback, "display_name", PyNone) >>

C13_Witness ==
    /\ Resolving(1)
    /\ \E f \in DOMAIN Body(teslafi_data[1]) \cap DOMAIN Body(teslafi_data_old[1]) :
         /\ Body(teslafi_data[1])[f] = ""
         /\ Body(teslafi_data_old[1])[f] = "Other"
         /\ getSetData(Body(teslafi_data[1]), Body(teslafi_data_old[1]), f, "-1") = Ok("Other")
    /\ \E f \in DOMAIN Body(teslafi_data[1]) \cap DOMAIN Body(teslafi_data_old[1]) :
         /\ Usable(Body(teslafi_data[1])[f])
         /\ Usable(Body(teslafi_data_old[1])[f])
         /\ Body(teslafi_data[1])[f] # Body(teslafi_data_old[1])[f]

(***************************************************************************)
(* C14.  A call that raises (status other than 200, or an error envelope)  *)
(* ends collect() at once, for the first call and for the lastGoodTemp     *)
(* call: collect() makes no further call and does not repeat the one that  *)
(* raised, the mapping is never started, and the caller gets the           *)
(* exception and no batch.                                                 *)
(***************************************************************************)
ApiFailureMessages == {"Error calling TeslaFi API", "Unsucessful API response"}

AwaitsCall(t) == pc[t] \in {"primary", "fallback"}

C14_FailedCallAbortsScrape ==
    /\ [][\A t \in Scrapers :
            (AwaitsCall(t) /\ Steps(t) /\ clock' = clock)
                => /\ pc'[t] = "idle"
                   /\ returned'.kind = "raised"
                   /\ returned'.scraper = t
                   /\ returned'.message \in ApiFailureMessages
                   /\ returned'.calls = calls[t]
                   /\ "metrics" \notin DOMAIN returned']_vars
    /\ []((returned.kind = "raised" /\ returned.message \in ApiFailureMessages)
            => /\ returned.teslafi_data_old = NoSnapshot
               /\ \/ returned.calls = <<PyNone>> /\ returned.teslafi_data = NoSnapshot
                  \/ returned.calls = <<PyNone, "lastGoodTemp">>
                        /\ NullTemp(returned.teslafi_data)
                        /\ returned.fetched = NoSnapshot)
    /\ [](returned.kind = "batch" => returned.teslafi_data_old # NoSnapshot)

C14_Witness ==
    /\ returned.kind = "raised"
    /\ returned.message = "Unsucessful API response"
    /\ returned.detail = "unauthorized"
    /\ returned.calls = <<PyNone, "lastGoodTemp">>
    /\ last_good_data = NoSnapshot

(***************************************************************************)
(* C15.  callTeslafiApi returns the parsed body only when the status is    *)
(* 200 and the body has no top-level "response" key.  Any other status     *)
(* raises "Error calling TeslaFi API" whatever the body is; status 200     *)
(* with a top-level "response" key raises "Unsucessful API response" with  *)
(* response.result as its detail, '' when there is none.  The exception    *)
(* a failed collect() hands to its caller is that one.                     *)
(***************************************************************************)
Commands == {PyNone, "lastGoodTemp"}

EnvelopeResult(json) ==
    IF "result" \in DOMAIN json.response THEN json.response["result"] ELSE ""

C15_FetchContract ==
    /\ \A c \in Commands : \A resp \in Responses(c) :
         LET r == callTeslafiApi(resp)
         IN  /\ r.ok <=> (resp.status = HTTP_OK /\ ~IsEnvelope(resp.json))
             /\ r.ok => r.v = resp.json
             /\ resp.status # HTTP_OK => TransportFailure(r)
             /\ (resp.status = HTTP_OK /\ IsEnvelope(resp.json))
                    => /\ ~r.ok
                       /\ r.message = "Unsucessful API response"
                       /\ r.detail = EnvelopeResult(resp.json)
    /\ \A c \in Commands :
         /\ \E resp \in Responses(c) : resp.status # HTTP_OK /\ IsEnvelope(resp.json)
         /\ \E resp \in Responses(c) :
                resp.status = HTTP_OK /\ IsEnvelope(resp.json) /\ EnvelopeResult(resp.json) # ""
    /\ (returned.kind = "raised" /\ returned.message \in ApiFailureMessages)
         => \E resp \in Responses(returned.calls[Len(returned.calls)]) :
                Raised(callTeslafiApi(resp)) =
                    [kind |-> returned.kind, error |-> returned.error,
                     message |-> returned.message, detail |-> returned.detail]

C15_Witness ==
    /\ returned.kind = "raised"
    /\ returned.message = "Unsucessful API response"
    /\ returned.detail = ""
    /\ returned.calls = <<PyNone>>
    /\ clock = 1

(***************************************************************************)
(* C16.  Every collect() makes one or two calls, one after the other: the  *)
(* first without a command; a second one, lastGoodTemp, is sent only       *)
(* after the first has returned a snapshot with null outside_temp and      *)
(* last_good_data was found unset.  Every other collect() ends having      *)
(* made exactly one call.                                                  *)
(***************************************************************************)
OneCall == <<PyNone>>

TwoCalls == <<PyNone, "lastGoodTemp">>

C16_OneOrTwoSequentialCalls ==
    /\ [](\A t \in Scrapers :
            /\ pc[t] # "idle" => calls[t] \in {OneCall, TwoCalls}
            /\ calls[t] = TwoCalls
                 => /\ NullTemp(teslafi_data[t])
                    /\ pc[t] \in {"fallback", "storeFallback", "readCache", "map"})
    /\ [][\A t \in Scrapers :
            calls'[t] # calls[t]
                => \/ pc[t] = "idle" /\ calls'[t] = OneCall
                   \/ /\ pc[t] = "testCache" /\ last_good_data = NoSnapshot
                      /\ NullTemp(teslafi_data[t])
                      /\ calls[t] = OneCall /\ calls'[t] = TwoCalls
                   \/ pc'[t] = "idle" /\ returned'.calls = calls[t]]_vars
    /\ [][\A t \in Scrapers :
            (pc[t] = "testCache" /\ last_good_data # NoSnapshot /\ Steps(t))
                => pc'[t] = "readCache" /\ calls'[t] = OneCall]_vars
    /\ [](returned.kind # "none"
            => /\ returned.calls \in {OneCall, TwoCalls}
               /\ ~NullTemp(returned.teslafi_data) => returned.calls = OneCall
               /\ (returned.calls = OneCall /\ Mapped /\ NullTemp(returned.teslafi_data))
                    => returned.fetched = NoSnapshot)

C16_Witness ==
    /\ returned.kind = "batch"
    /\ Complete(returned.teslafi_data)
    /\ returned.calls = OneCall
    /\ \E t \in Scrapers : calls[t] = TwoCalls /\ pc[t] = "fallback"

(***************************************************************************)
(* C17.  A batch built from a current snapshot with null outside_temp      *)
(* mixes the two snapshots field by field: an observation whose field is   *)
(* neither null nor '' in the current snapshot has the value the current   *)
(* snapshot gives it, whatever the fallback snapshot holds for the field;  *)
(* one whose field is null in the current snapshot has the value the       *)
(* fallback snapshot gives it.  With battery_level "80" and a null         *)
(* outside_temp in the current snapshot and outside_temp "15" in the       *)
(* fallback: battery level 80 and outside temperature 15.                  *)
(***************************************************************************)
ReturnedValue(name, k) ==
    LET i == CHOOSE j \in DOMAIN returned.metrics : returned.metrics[j].name = name
    IN  returned.metrics[i].samples[k].value

C17_FieldsMixedPerField ==
    (returned.kind = "batch" /\ NullTemp(returned.teslafi_data)) =>
        LET current == Body(returned.teslafi_data)
            fallback == Body(returned.teslafi_data_old)
        IN  /\ \A i \in DOMAIN Catalog :
                 Catalog[i].kind \in {"counter", "gauge"} =>
                    \A k \in DOMAIN Catalog[i].obs :
                        LET o == Catalog[i].obs[k]
                            value == returned.metrics[i].samples[k].value
                        IN  /\ Usable(current[o.field])
                                => Ok(value) = ObservationValue(current, current, o)
                            /\ (current[o.field] = PyNone /\ Usable(fallback[o.field]))
                                => Ok(value) = ObservationValue(fallback, fallback, o)
            /\ (current["battery_level"] = "80" /\ fallback["outside_temp"] = "15")
                 => /\ ReturnedValue("teslafi_battery_level", 1) = Num(80, 1)
                    /\ ReturnedValue("teslafi_outside_temperature", 1) = Num(15, 1)

C17_Witness ==
    /\ returned.kind = "batch"
    /\ NullTemp(returned.teslafi_data)
    /\ Body(returned.teslafi_data)["battery_level"] = "80"
    /\ Body(returned.teslafi_data_old)["battery_level"] = "70"
    /\ Body(returned.teslafi_data_old)["outside_temp"] = "15"
    /\ ReturnedValue("teslafi_battery_level", 1) = Num(80, 1)
    /\ ReturnedValue("teslafi_outside_temperature", 1) = Num(15, 1)

(***************************************************************************)
(* The converted fields, and the numerals compared below.                  *)
(***************************************************************************)
DistanceFields ==
    {"odometer", "battery_range", "ideal_battery_range", "est_battery_range", "maxRange",
     "charge_miles_added_ideal", "charge_miles_added_rated"}

SpeedFields == {"speed", "charge_rate"}

DurationFields == {"time_to_full_charge"}

(* value = x * (fn / fs), as fractions held unreduced *)
IsProduct(value, x, fn, fs) == value.n = x.n * fn /\ value.scale = x.scale * fs

(* value = n / scale *)
IsDecimal(value, n, scale) ==
    value.scale % scale = 0 /\ value.n = n * (value.scale \div scale)

(* the numeral of x * (fn / fs) *)
ExactProduct(x, fn, fs) == ExactDecimal(x.n * fn, x.scale * fs)

(* the first places digits after the point *)
Places(frac, places) == [i \in 1..places |-> IF i <= Len(frac) THEN frac[i] ELSE 0]

AgreeTo(value, exact, places) ==
    /\ value.neg = exact.neg
    /\ value.whole = exact.whole
    /\ Places(value.frac, places) = Places(exact.frac, places)

ConvertedFieldsHaveMetrics ==
    \A f \in DistanceFields \cup SpeedFields \cup DurationFields :
        \E i \in DOMAIN Catalog :
            Catalog[i].kind \in {"counter", "gauge"} /\ Catalog[i].obs[1].field = f

(***************************************************************************)
(* C18, as stated.  The unit conversions are exact multiplications of the  *)
(* resolved value by a constant of the field: odometer, the range fields   *)
(* and the charge-range-added fields by 1609.344, speed and charge_rate    *)
(* by 1.609344, time_to_full_charge by 3600; odometer "100" gives          *)
(* 160934.4 and speed "60" gives 96.56064.                                 *)
(***************************************************************************)
C18_UnitConversions ==
    returned.kind = "batch" =>
        LET current == Body(returned.teslafi_data)
            fallback == Body(returned.teslafi_data_old)
        IN  /\ \A i \in DOMAIN Catalog :
                 Catalog[i].kind \in {"counter", "gauge"} =>
                    \A k \in DOMAIN Catalog[i].obs :
                        LET f == Catalog[i].obs[k].field
                            r == Precedence(current, fallback, f, PyNone)
                            x == IF r = PyNone THEN Num(0, 1) ELSE DecimalStrings[r]
                            value == returned.metrics[i].samples[k].value
                        IN  /\ f \in DistanceFields
                                 => value = ExactProduct(x, 1609344, 1000)
                            /\ f \in SpeedFields
                                 => value = ExactProduct(x, 1609344, 1000000)
                            /\ f \in DurationFields => IsProduct(value, x, 3600, 1)
            /\ ConvertedFieldsHaveMetrics
            /\ Precedence(current, fallback, "odometer", PyNone) = "100"
                 => ReturnedValue("teslafi_odometer_meter", 1)
                        = Decimal(FALSE, 160934, <<4>>)
            /\ Precedence(current, fallback, "speed", PyNone) = "60"
                 => ReturnedValue("teslafi_speed_kmh", 1)
                        = Decimal(FALSE, 96, <<5, 6, 0, 6, 4>>)

(***************************************************************************)
(* C18, amended.  The conversions are double-precision multiplications of  *)
(* float(value) by the constant of the field, with no rounding of their    *)
(* own: the product by 60*60 is exact; the product by 1609.344 or          *)
(* 1.609344 is the exact product up to the rounding of a double, so it     *)
(* agrees with it to twelve places after the point.  Odometer "100" gives  *)
(* 160934.4 and speed "60" gives 96.56064; speed "70" gives                *)
(* 112.65408000000001.                                                     *)
(***************************************************************************)
C18_UnitConversionsInDoubles ==
    returned.kind = "batch" =>
        LET current == Body(returned.teslafi_data)
            fallback == Body(returned.teslafi_data_old)
        IN  /\ \A i \in DOMAIN Catalog :
                 Catalog[i].kind \in {"counter", "gauge"} =>
                    \A k \in DOMAIN Catalog[i].obs :
                        LET f == Catalog[i].obs[k].field
                            r == Precedence(current, fallback, f, PyNone)
                            x == IF r = PyNone THEN Num(0, 1) ELSE DecimalStrings[r]
                            value == returned.metrics[i].samples[k].value
                        IN  /\ f \in DistanceFields
                                 => AgreeTo(value, ExactProduct(x, 1609344, 1000), 12)
                            /\ f \in SpeedFields
                                 => AgreeTo(value, ExactProduct(x, 1609344, 1000000), 12)
                            /\ f \in DurationFields => IsProduct(value, x, 3600, 1)
            /\ ConvertedFieldsHaveMetrics
            /\ Precedence(current, fallback, "odometer", PyNone) = "100"
                 => ReturnedValue("teslafi_odometer_meter", 1)
                        = Decimal(FALSE, 160934, <<4>>)
            /\ Precedence(current, fallback, "speed", PyNone) = "60"
                 => ReturnedValue("teslafi_speed_kmh", 1)
                        = Decimal(FALSE, 96, <<5, 6, 0, 6, 4>>)
            /\ Precedence(current, fallback, "speed", PyNone) = "70"
                 => ReturnedValue("teslafi_speed_kmh", 1)
                        = Decimal(FALSE, 112, <<6, 5, 4, 0, 8, 0, 0, 0, 0, 0, 0, 0, 0, 1>>)

C18_Witness ==
    /\ returned.kind = "batch"
    /\ Body(returned.teslafi_data)["odometer"] = "100"
    /\ Body(returned.teslafi_data)["speed"] = "70"
    /\ Body(returned.teslafi_data)["time_to_full_charge"] = "2"
    /\ ReturnedValue("teslafi_odometer_meter", 1) = Decimal(FALSE, 160934, <<4>>)
    /\ ReturnedValue("teslafi_speed_kmh", 1) # ExactProduct(Num(70, 1), 1609344, 1000000)
    /\ AgreeTo(ReturnedValue("teslafi_speed_kmh", 1),
               ExactProduct(Num(70, 1), 1609344, 1000000), 12)
    /\ IsDecimal(ReturnedValue("teslafi_time_to_full_charge_seconds", 1), 7200, 1)

(***************************************************************************)
(* C19.  For each field with an "unknown" value of -1, a value that is     *)
(* null or '' in both the current and the fallback snapshot gives the      *)
(* gauge -1 and raises nothing: a scrape of an otherwise complete          *)
(* snapshot returns its batch.                                             *)
(***************************************************************************)
SentinelFields ==
    {"charge_port_cold_weather_mode", "charge_port_door_open", "charger_power",
     "charger_pilot_current", "charger_actual_current", "charger_voltage",
     "fast_charger_present", "trip_charging", "center_display_state",
     "left_temp_direction", "right_temp_direction"}

SentinelObservations == {o \in NumericObservations : o.field \in SentinelFields}

C19_UnknownIsMinusOne ==
    /\ {o.field : o \in SentinelObservations} = SentinelFields
    /\ Mapped =>
         LET current == Body(returned.teslafi_data)
             fallback == Body(returned.teslafi_data_old)
         IN  /\ \A o \in SentinelObservations :
                  MissingInBoth(o.field)
                     => ObservationValue(current, fallback, o) = Ok(Num(-1, 1))
             /\ returned.kind = "batch" =>
                  \A i \in DOMAIN Catalog :
                     (Catalog[i].kind = "gauge" /\ Catalog[i].obs[1].field \in SentinelFields
                        /\ MissingInBoth(Catalog[i].obs[1].field))
                        => returned.metrics[i].samples[1].value = Num(-1, 1)
             /\ (/\ returned.teslafi_data.doc.base = "awake"
                 /\ returned.teslafi_data.doc.field \in SentinelFields
                 /\ returned.teslafi_data.doc.val \in {PyNone, ""})
                  => returned.kind = "batch"

C19_Witness ==
    /\ returned.kind = "batch"
    /\ NullTemp(returned.teslafi_data)
    /\ returned.teslafi_data.doc.field = "center_display_state"
    /\ MissingInBoth("center_display_state")
    /\ returned.teslafi_data_old.doc.base = "lastgood"
    /\ ReturnedValue("teslafi_center_display_state", 1) = Num(-1, 1)

(***************************************************************************)
(* C20.  A lastGoodTemp call that raises leaves last_good_data as it was,  *)
(* unset when no other collect() has set it: nothing is cached for the     *)
(* failure.  As long as last_good_data is unset, every collect() that      *)
(* gets a null outside_temp calls lastGoodTemp again; last_good_data       *)
(* becomes set only by the assignment of a snapshot a call returned.       *)
(***************************************************************************)
C20_FailedFallbackIsNotCached ==
    /\ [][\A t \in Scrapers :
            (pc[t] = "fallback" /\ Steps(t) /\ clock' = clock)
                => /\ last_good_data' = last_good_data
                   /\ writer' = writer
                   /\ returned'.kind = "raised"]_vars
    /\ [][\A t \in Scrapers :
            (pc[t] = "primary" /\ Steps(t) /\ NullTemp(teslafi_data'[t]))
                => pc'[t] = "testCache"]_vars
    /\ [][\A t \in Scrapers :
            (pc[t] = "testCache" /\ last_good_data = NoSnapshot /\ Steps(t))
                => pc'[t] = "fallback" /\ calls'[t] = TwoCalls]_vars
    /\ [][(last_good_data = NoSnapshot /\ last_good_data' # NoSnapshot)
            => \E t \in Scrapers :
                 /\ pc[t] \in {"storeFallback", "storeCurrent"}
                 /\ Steps(t)
                 /\ last_good_data' \in {fetched[t], teslafi_data[t]}
                 /\ last_good_data'.id \in 1..clock]_vars

C20_Witness ==
    /\ clock = 2
    /\ last_good_data = NoSnapshot
    /\ \E t \in Scrapers :
         /\ pc[t] = "fallback"
         /\ teslafi_data[t].id = 2
         /\ calls[t] = TwoCalls
         /\ \A u \in Scrapers \ {t} : pc[u] = "idle"

(***************************************************************************)
(* C21.  last_good_data is assigned before any metric is built: a          *)
(* collect() that has assigned a snapshot to it (the complete current      *)
(* snapshot, or what lastGoodTemp returned) and then raises while          *)
(* building the metrics returns no batch and leaves last_good_data equal   *)
(* to the snapshot it assigned, not to what it was before.                 *)
(***************************************************************************)
MappingRaised == returned.kind = "raised" /\ Mapped

C21_CacheWrittenBeforeMapping ==
    MappingRaised =>
        /\ "metrics" \notin DOMAIN returned
        /\ returned.error \in {"TypeError", "ValueError", "KeyError"}
        /\ Complete(returned.teslafi_data)
             => /\ last_good_data = returned.teslafi_data
                /\ last_good_data.id = clock
        /\ returned.fetched # NoSnapshot
             => /\ last_good_data = returned.fetched
                /\ last_good_data.id = clock

C21_Witness ==
    /\ MappingRaised
    /\ returned.error = "TypeError"
    /\ Complete(returned.teslafi_data)
    /\ Missing(Body(returned.teslafi_data), "odometer")
    /\ last_good_data = returned.teslafi_data
    /\ last_good_data.id = 2


(***************************************************************************)
(* C22.  The completeness test is `is None` only, while getSetData also    *)
(* treats '' as missing: a current snapshot whose outside_temp is '' is    *)
(* taken as complete, so lastGoodTemp is not called, last_good_data is     *)
(* overwritten with that snapshot, and collect() raises at the             *)
(* outside-temperature gauge (float(None)) with no batch.                  *)
(***************************************************************************)
EmptyTemp(s) ==
    /\ s # NoSnapshot
    /\ "outside_temp" \in DOMAIN Body(s)
    /\ Body(s)["outside_temp"] = ""

\* What the metrics before the outside-temperature gauge need (lines 89-159).
ReachesOutsideTemperature(s) ==
    \A f \in {"vin", "display_name", "car_type", "car_special_type",
              "polling", "data_id", "odometer"} : ~Missing(Body(s), f)

C22_EmptyTempCountsAsComplete ==
    /\ \A t \in Scrapers :
           (pc[t] \in {"testCache", "fallback", "storeFallback", "readCache"})
               => ~EmptyTemp(teslafi_data[t])
    /\ (returned.kind # "none" /\ EmptyTemp(returned.teslafi_data)) =>
           /\ returned.calls = OneCall
           /\ returned.fetched = NoSnapshot
           /\ returned.teslafi_data_old = returned.teslafi_data
           /\ last_good_data = returned.teslafi_data
           /\ returned.kind = "raised"
           /\ ReachesOutsideTemperature(returned.teslafi_data)
                  => returned.error = "TypeError"

C22_Witness ==
    /\ returned.kind = "raised"
    /\ returned.error = "TypeError"
    /\ EmptyTemp(returned.teslafi_data)
    /\ returned.teslafi_data.doc.base = "awake"
    /\ returned.calls = OneCall
    /\ last_good_data = returned.teslafi_data
    /\ last_good_data.id = 2


(***************************************************************************)
(* C23.  Under every interleaving of overlapping collect() calls,          *)
(* last_good_data is unset or one whole snapshot returned by a single      *)
(* call of callTeslafiApi (it is only ever assigned such a snapshot, held  *)
(* by the assigning scraper), and the fallback a collect() resolves its    *)
(* fields against is one snapshot for the whole pass: once                 *)
(* teslafi_data_old is bound it does not change until collect() leaves,    *)
(* and the metrics are built from it, even when another collect() assigns  *)
(* last_good_data meanwhile.                                               *)
(***************************************************************************)
WholeSnapshot(s) ==
    /\ DOMAIN s = {"id", "doc"}
    /\ s.id \in 1..clock
    /\ s.doc \in upstream.current \cup upstream.lastGoodTemp

CacheAssignedWhole ==
    last_good_data' # last_good_data =>
        \E t \in Scrapers :
            /\ writer' = t
            /\ last_good_data' \in {teslafi_data[t], fetched[t]}
            /\ WholeSnapshot(last_good_data')

FallbackSourceFixed ==
    \A t \in Scrapers :
        teslafi_data_old[t] # NoSnapshot =>
            /\ WholeSnapshot(teslafi_data_old[t])
            /\ \/ teslafi_data_old'[t] = teslafi_data_old[t]
               \/ /\ pc[t] = "map"
                  /\ pc'[t] = "idle"
                  /\ returned'.scraper = t
                  /\ returned'.teslafi_data_old = teslafi_data_old[t]
                  /\ LET r == MapMetrics(Body(teslafi_data[t]),
                                         Body(teslafi_data_old[t]))
                     IN  IF r.ok
                         THEN returned'.kind = "batch" /\ returned'.metrics = r.v
                         ELSE returned'.kind = "raised"

C23_CacheAndFallbackAreWholeSnapshots ==
    /\ [](last_good_data = NoSnapshot \/ WholeSnapshot(last_good_data))
    /\ [][CacheAssignedWhole]_vars
    /\ [][FallbackSourceFixed]_vars

C23_Witness ==
    /\ returned.kind = "batch"
    /\ returned.teslafi_data_old.id = 1
    /\ last_good_data.id = 2
    /\ last_good_data # returned.teslafi_data_old
    /\ writer # returned.scraper
    /\ returned.metrics = MapMetrics(Body(returned.teslafi_data),
                                     Body(returned.teslafi_data_old)).v


(***************************************************************************)
(* C24.  A field that is missing as a key (not merely null) makes          *)
(* collect() raise KeyError and return no batch, whatever default the      *)
(* field has: a current snapshot without the key outside_temp raises at    *)
(* the completeness test, before any lastGoodTemp call, and leaves         *)
(* last_good_data as it was; getSetData raises when the key is missing     *)
(* from the current snapshot, or from the fallback snapshot when the       *)
(* current value is None or ''.                                            *)
(***************************************************************************)
KeyMissing(body, f) == f \notin DOMAIN body

ResolveLacksKey(current, fallback, f) ==
    \/ KeyMissing(current, f)
    \/ Missing(current, f) /\ KeyMissing(fallback, f)

LeavesWithoutTempKey(t) ==
    /\ pc[t] = "primary"
    /\ returned'.kind # "none"
    /\ returned'.teslafi_data # NoSnapshot
    /\ KeyMissing(Body(returned'.teslafi_data), "outside_temp")

C24_MissingKeyFailsScrape ==
    /\ [][\A t \in Scrapers :
            LeavesWithoutTempKey(t) =>
                /\ returned'.kind = "raised"
                /\ returned'.error = "KeyError"
                /\ returned'.calls = OneCall
                /\ returned'.fetched = NoSnapshot
                /\ last_good_data' = last_good_data
                /\ writer' = writer]_vars
    /\ [](\A t \in Scrapers :
            Resolving(t) =>
                LET current == Body(teslafi_data[t])
                    fallback == Body(teslafi_data_old[t])
                IN  \A f \in Fields : \A d \in Defaults :
                        ResolveLacksKey(current, fallback, f)
                            <=> getSetData(current, fallback, f, d) = Raise("KeyError"))
    /\ [](Mapped =>
            LET current == Body(returned.teslafi_data)
                fallback == Body(returned.teslafi_data_old)
            IN  (\E f \in Fields : ResolveLacksKey(current, fallback, f))
                    => /\ returned.kind = "raised"
                       /\ returned.error = "KeyError"
                       /\ "metrics" \notin DOMAIN returned)

C24_Witness ==
    /\ returned.kind = "raised"
    /\ returned.error = "KeyError"
    /\ returned.calls = TwoCalls
    /\ Mapped
    /\ \E o \in SentinelObservations :
          /\ Missing(Body(returned.teslafi_data), o.field)
          /\ KeyMissing(Body(returned.teslafi_data_old), o.field)


(***************************************************************************)
(* C25.  A flag added for a value outside the fixed enumeration exists     *)
(* only in the batch of the collect() that resolved that value: the state  *)
(* dicts are built anew in every collect(), so the flags of a batch are    *)
(* the fixed flags plus, at most, the value this collect() resolved; a     *)
(* later collect() whose value is in the enumeration returns exactly the   *)
(* fixed flags, and so does a collect() overlapping one that added a       *)
(* flag.                                                                   *)
(***************************************************************************)
C25_AddedFlagsAreNotKept ==
    returned.kind = "batch" =>
        \A s \in ReturnedStateSets :
            LET v == Rewritten(s.m, s.resolved)
            IN  /\ DOMAIN s.flags = FixedFlags(s.m) \cup {v}
                /\ v \in FixedFlags(s.m) => DOMAIN s.flags = FixedFlags(s.m)
                /\ \A k \in DOMAIN s.flags \ FixedFlags(s.m) : k = v /\ s.flags[k]

\* An earlier collect() of another scraper stored the snapshot with the
\* unexpected value and has returned; this one resolves a value of the
\* enumeration from its own current snapshot.
C25_Witness ==
    /\ returned.kind = "batch"
    /\ NullTemp(returned.teslafi_data)
    /\ returned.teslafi_data_old.id = 1
    /\ returned.teslafi_data_old.doc.val = "Other"
    /\ writer \in Scrapers \ {returned.scraper}
    /\ pc[writer] = "idle"
    /\ \E s \in ReturnedStateSets :
          /\ s.m.field = returned.teslafi_data_old.doc.field
          /\ s.resolved \in FixedFlags(s.m)
          /\ DOMAIN s.flags = FixedFlags(s.m)

=============================================================================
